---- MODULE Spec2Model ----
(***************************************************************************)
(* Model of the tatarana-ocr-engine request pipeline:                      *)
(*   routers/orchestrator.py, routers/bank_statements.py,                  *)
(*   routers/credit_cards.py, routers/input_folder.py  (request layer)     *)
(*   services/ocr_processor.py                          (pipeline)         *)
(*   services/csv_generator.py                          (normalizer)       *)
(*   utils/file_handler.py                              (temp files)       *)
(*   services/google_drive.py, services/llm_service.py  (remote calls)     *)
(*                                                                         *)
(* A text is a sequence of lines and a line is the sequence of its         *)
(* comma-separated cells: "a,b\nc" is << <<"a","b">>, <<"c">> >>, the      *)
(* empty string is << <<"">> >>, and a text that ends in a newline has a   *)
(* last line <<"">>.                                                       *)
(***************************************************************************)
EXTENDS Integers, Sequences, FiniteSets, TLC

\* ---------------------------------------------------------------- bounds
\* Longest folder listing explored.
MaxFiles == 2
\* Calls of PromptLoader._load_prompts counted; further calls leave the
\* count where it is.
MaxLoads == 2
\* Longest inference text (in lines) and longest transaction list handed
\* to the normalizer on its own.
MaxLines == 3
MaxTransactions == 2
\* Largest max_retries retry_with_backoff is called with.
MaxRetries == 3

\* ------------------------------------------------------------- constants
None == [none |-> TRUE]

\* Worker processes of the hosting runtime; they share the temp directory.
Runs == {1, 2}

Max(a, b) == IF a >= b THEN a ELSE b

\* str.lower() on the strings of the model.
Lower(s) ==
    CASE s = "ITAU" -> "itau"
      [] s = "PNG" -> "png"
      [] OTHER -> s

\* The files of the remote drive: id -> name (stem, extension) and bytes.
\* f1 and f2 are two documents with the same name and different content.
DriveFiles ==
    [f1 |-> [stem |-> "a", ext |-> "pdf", bytes |-> "B1"],
     f2 |-> [stem |-> "a", ext |-> "pdf", bytes |-> "B2"],
     f3 |-> [stem |-> "c", ext |-> "PNG", bytes |-> "B3"],
     f4 |-> [stem |-> "d", ext |-> "txt", bytes |-> "B4"]]

FileIds == DOMAIN DriveFiles

FileName(f) == [stem |-> DriveFiles[f].stem, ext |-> DriveFiles[f].ext]

FileNames == {FileName(f) : f \in FileIds}

\* filename.lower().endswith('.pdf')
IsPdf(name) == Lower(name.ext) = "pdf"

\* file['name'].lower().endswith(('.pdf', '.jpg', '.jpeg', '.png'))
SupportedFormat(name) == Lower(name.ext) \in {"pdf", "jpg", "jpeg", "png"}

\* os.path.join(tempfile.gettempdir(), f"ocr_{filename}")
TempPath(name) == [dir |-> "tmp", file |-> <<"ocr_", name.stem, name.ext>>]

TempPaths == {TempPath(n) : n \in FileNames}

\* pdf2image.convert_from_path on the bytes found at the path: the page
\* images of the document, in page order.
PdfPages(bytes) ==
    CASE bytes = "B1" -> << [of |-> "B1", page |-> 1] >>
      [] bytes = "B2" -> << [of |-> "B2", page |-> 1], [of |-> "B2", page |-> 2] >>
      [] OTHER -> << >>

\* OCRProcessor._image_to_bytes: the JPEG encoding of a page image.
ImageToBytes(image) == [jpeg |-> image]

\* ------------------------------------------------------------ exceptions
Exc(cls, msg) == [cls |-> cls, msg |-> msg]

\* str(e)
StrExc(e) == e.msg

\* -------------------------------------------------- classification (JSON)
\* The output of the inference call for the identification prompt.  A text
\* is described by what json.loads makes of it: an object with its members,
\* another JSON value, or text that is not JSON.
JsonObject(members) == [form |-> "object", members |-> members]

Classification(bank, document_type) ==
    JsonObject([bank |-> bank, document_type |-> document_type, confidence |-> 90])

\* Prose, a JSON object inside a Markdown fence, a JSON array, and no
\* output at all (message.content is None).
ProseText == [form |-> "prose"]
FencedJson == [form |-> "fenced"]
JsonArray == [form |-> "array"]

\* Outputs that are not a classification structure.
Unparsable == {ProseText, FencedJson, JsonArray, None}

\* The inference outputs explored for the identification prompt.
IdentifyOutputs ==
    {Classification("ITAU", "bank_statement"),
     Classification("xp", "credit_card"),
     Classification("xp", "bank_statement"),
     Classification("amex", "credit_card"),
     Classification("picpay", "receipt"),
     JsonObject([document_type |-> "bank_statement"])}
    \cup Unparsable

\* json.loads(response)
JsonLoads(text) ==
    IF text = None
    THEN [raised |-> Exc("TypeError", "the JSON object must be str, bytes or bytearray, not NoneType")]
    ELSE IF text.form \in {"prose", "fenced"}
    THEN [raised |-> Exc("JSONDecodeError", "Expecting value")]
    ELSE IF text.form = "object" THEN [value |-> [dict |-> text.members]]
    ELSE [value |-> [list |-> TRUE]]

Raised(r) == "raised" \in DOMAIN r

FallbackIdentification == [bank |-> "unknown", document_type |-> "unknown", confidence |-> 0]

\* dict.get(key, default)
Get(dict, key, default) == IF key \in DOMAIN dict THEN dict[key] ELSE default

\* dict.get(key), and a field declared Optional[...] = None: the value if
\* there is one, else None.
Some(v) == [some |-> v]
Optional(dict, key) == IF key \in DOMAIN dict THEN Some(dict[key]) ELSE None

\* ------------------------------------------------------ format normalizer
\* The inference output of an extraction prompt is [text |-> lines] or None
\* (message.content may be absent).
Str(lines) == [text |-> lines]

\* str.lstrip() / str.rstrip() on the cells of the model.
LStrip(cell) == IF cell = " date" THEN "date" ELSE cell
RStrip(cell) == cell

Blank(line) == line = <<"">>
HasComma(line) == Len(line) > 1
NonBlank(lines) == SelectSeq(lines, LAMBDA l : ~Blank(l))

\* line.strip(): whitespace goes from the two ends of the line.
StripLine(line) ==
    [j \in 1..Len(line) |->
        IF j = 1 /\ j = Len(line) THEN RStrip(LStrip(line[j]))
        ELSE IF j = 1 THEN LStrip(line[j])
        ELSE IF j = Len(line) THEN RStrip(line[j])
        ELSE line[j]]

\* llm_response.strip().startswith('date,')
StartsWithDate(lines) ==
    LET nb == NonBlank(lines)
    IN  nb # << >> /\ HasComma(nb[1]) /\ LStrip(nb[1][1]) = "date"

\* [line.strip() for line in lines if line.strip() and ',' in line]
CsvLines(lines) ==
    LET keep == SelectSeq(lines, LAMBDA l : ~Blank(StripLine(l)) /\ HasComma(l))
    IN  [k \in 1..Len(keep) |-> StripLine(keep[k])]

SchemaColumns == <<"date", "description", "amount", "balance", "category", "installments">>

\* The fallback with its data row left out.
NoDataHeaderOnly ==
    << <<"date", "description", "amount", "balance", "category">>, <<"">> >>

\* "date,description,amount,balance,category\nNo data extracted,,,\n"
NoDataCsv ==
    << <<"date", "description", "amount", "balance", "category">>,
       <<"No data extracted", "", "", "">>,
       <<"">> >>

\* "date,description,amount,balance,category,installments\nError processing data,,,\n"
ErrorCsv ==
    << SchemaColumns, <<"Error processing data", "", "", "">>, <<"">> >>

\* pandas renders a numeric column with float formatting.
NumericCells == {"100.00", "100.0"}
FloatRepr(cell) == IF cell = "100.00" THEN "100.0" ELSE cell

\* pd.read_csv(io.StringIO(csv_content)): blank lines are skipped, the first
\* line left is the header, a first data row longer than the header turns
\* its leading cells into the index, shorter rows are padded with NaN (""),
\* and a later row longer than the table is a ParserError.
ReadCsv(lines) ==
    LET ls == NonBlank(lines)
    IN  IF ls = << >>
        THEN [raised |-> Exc("EmptyDataError", "No columns to parse from file")]
        ELSE
        LET header == ls[1]
            rows == Tail(ls)
            H == Len(header)
            W == IF rows = << >> THEN H ELSE Max(H, Len(rows[1]))
            lead == W - H
            cell(k, j) == IF j <= Len(rows[k]) THEN rows[k][j] ELSE ""
            numeric(j) ==
                /\ \E k \in 1..Len(rows) : cell(k, lead + j) # ""
                /\ \A k \in 1..Len(rows) : cell(k, lead + j) \in NumericCells \cup {""}
        IN  IF \E k \in 2..Len(rows) : Len(rows[k]) > W
            THEN [raised |-> Exc("ParserError", "Error tokenizing data")]
            ELSE [value |->
                    [columns |-> header,
                     rows |-> [k \in 1..Len(rows) |->
                                [j \in 1..H |->
                                    IF numeric(j) THEN FloatRepr(cell(k, lead + j))
                                    ELSE cell(k, lead + j)]]]]

\* Position of a column in the frame, 0 when the frame lacks it.
ColumnIndex(columns, name) ==
    IF \E j \in 1..Len(columns) : columns[j] = name
    THEN CHOOSE j \in 1..Len(columns) :
            columns[j] = name /\ \A i \in 1..(j - 1) : columns[i] # name
    ELSE 0

\* CompleteAndSerialize without the two "add the missing columns" loops: the
\* frame is only reindexed to the schema columns it has.
SerializeExistingColumns(df) ==
    LET present == SelectSeq(SchemaColumns, LAMBDA c : ColumnIndex(df.columns, c) # 0)
        row(k) == [c \in 1..Len(present) |-> df.rows[k][ColumnIndex(df.columns, present[c])]]
    IN  << present >> \o [k \in 1..Len(df.rows) |-> row(k)] \o << <<"">> >>

\* CompleteAndSerialize writing the rows without the header line.
SerializeWithoutHeader(df) ==
    LET row(k) == [c \in 1..Len(SchemaColumns) |->
                     LET j == ColumnIndex(df.columns, SchemaColumns[c])
                     IN  IF j = 0 THEN "" ELSE df.rows[k][j]]
    IN  [k \in 1..Len(df.rows) |-> row(k)] \o << <<"">> >>

\* The required and the optional columns are added empty where missing,
\* the frame is reindexed to the schema order and written with its header.
CompleteAndSerialize(df) ==
    LET row(k) == [c \in 1..Len(SchemaColumns) |->
                     LET j == ColumnIndex(df.columns, SchemaColumns[c])
                     IN  IF j = 0 THEN "" ELSE df.rows[k][j]]
    IN  << SchemaColumns >> \o [k \in 1..Len(df.rows) |-> row(k)] \o << <<"">> >>

\* The try block of create_csv_from_llm_response: the CSV content, or the
\* exception of the step that failed (None has no strip(); read_csv).
TryNormalize(llm_response) ==
    IF llm_response = None
    THEN [raised |-> Exc("AttributeError", "'NoneType' object has no attribute 'strip'")]
    ELSE
    LET lines == llm_response.text
        csv_lines == CsvLines(lines)
        csv_content ==
            IF StartsWithDate(lines) THEN lines
            ELSE IF csv_lines # << >> THEN csv_lines
            ELSE NoDataCsv
        df == ReadCsv(csv_content)
    IN  IF Raised(df) THEN df ELSE [value |-> CompleteAndSerialize(df.value)]

\* NormalizeOutcome with "raise" in the except branch.
NormalizeOutcomeReraise(attempt) == attempt

\* except Exception: log and return the error CSV.
NormalizeOutcome(attempt) ==
    IF Raised(attempt) THEN [value |-> ErrorCsv] ELSE attempt

\* CSVGenerator.create_csv_from_llm_response
create_csv_from_llm_response(llm_response) ==
    NormalizeOutcome(TryNormalize(llm_response)).value

\* pd.DataFrame(transactions): a column for every key that occurs, a row
\* for every dictionary, NaN (written as "") where a dictionary lacks the key.
KeyOrder == SchemaColumns \o <<"currency">>

\* DataFrame taking its columns from the first dictionary alone.
DataFrameOfFirstKeys(transactions) ==
    LET columns == SelectSeq(KeyOrder, LAMBDA c : c \in DOMAIN transactions[1])
    IN  [columns |-> columns,
         rows |-> [k \in 1..Len(transactions) |->
                    [j \in 1..Len(columns) |-> Get(transactions[k], columns[j], "")]]]

DataFrame(transactions) ==
    LET columns == SelectSeq(KeyOrder,
                       LAMBDA c : \E k \in 1..Len(transactions) : c \in DOMAIN transactions[k])
    IN  [columns |-> columns,
         rows |-> [k \in 1..Len(transactions) |->
                    [j \in 1..Len(columns) |-> Get(transactions[k], columns[j], "")]]]

\* "date,description,amount,balance,category,installments\nNo transactions found,,,\n"
NoTransactionsCsv ==
    << SchemaColumns, <<"No transactions found", "", "", "">>, <<"">> >>

\* CSVGenerator.create_csv_from_transactions
create_csv_from_transactions(transactions) ==
    IF transactions = << >> THEN NoTransactionsCsv
    ELSE CompleteAndSerialize(DataFrame(transactions))

\* The header line of a CSV text.
Header(csv) == csv[1]

\* csv_content.strip().split('\n'): the lines between the first and the last
\* line that is not blank.
StripSplit(csv) ==
    LET idx == {k \in 1..Len(csv) : ~Blank(csv[k])}
    IN  IF idx = {} THEN << <<"">> >>
        ELSE LET lo == CHOOSE k \in idx : \A m \in idx : k <= m
                 hi == CHOOSE k \in idx : \A m \in idx : k >= m
             IN  SubSeq(csv, lo, hi)

\* max(0, len(lines) - 1)
CountTransactions(csv) == Max(0, Len(StripSplit(csv)) - 1)

\* The inference outputs explored for an extraction prompt.
CsvThreeColumns ==
    Str(<< <<"date", "description", "amount">>,
           <<"2023-01-01", "Test", "100.00">>,
           <<"2023-01-02", "Test2", "100.00">> >>)
CsvExtraColumn ==
    Str(<< <<"date", "description", "amount", "currency">>,
           <<"2023-01-01", "Test", "100.00", "BRL">>,
           <<"">> >>)
CsvMissingColumns ==
    Str(<< <<"description", "balance">>, <<"Test", "5">> >>)
ProseOnly == Str(<< <<"I could not read this document.">> >>)
ProseThenCsv ==
    Str(<< <<"Here is the table:">>,
           <<"date", "description", "amount">>,
           <<"2023-01-01", "Test", "100.00">> >>)
RaggedCsv ==
    Str(<< <<"date", "description">>,
           <<"2023-01-01", "Test">>,
           <<"2023-01-02", "Test2", "100.00", "7">> >>)
EmptyText == Str(<< <<"">> >>)

ExtractOutputs ==
    {CsvThreeColumns, CsvExtraColumn, CsvMissingColumns, ProseOnly,
     ProseThenCsv, RaggedCsv, EmptyText, None}

\* The file name "" (no stem, no extension).
EmptyName == [stem |-> "", ext |-> ""]

\* generate_filename keeping the extension of the original file.
GenerateFilenameKeepingExtension(bank, document_type, original_filename) ==
    [base |-> IF original_filename # None /\ original_filename # EmptyName
              THEN <<original_filename.stem>>
              ELSE <<bank, "_", document_type>>,
     suffix |-> "_extracted_",
     ext |-> IF original_filename # None /\ original_filename # EmptyName
             THEN original_filename.ext ELSE "csv"]

\* CSVGenerator.generate_filename(bank, document_type, original_filename):
\* f"{base_name}_extracted_{timestamp}.csv"; None and "" are "no original
\* filename".
generate_filename(bank, document_type, original_filename) ==
    [base |-> IF original_filename # None /\ original_filename # EmptyName
              THEN <<original_filename.stem>>      \* rsplit('.', 1)[0]
              ELSE <<bank, "_", document_type>>,
     suffix |-> "_extracted_",
     ext |-> "csv"]

\* ------------------------------------------------------------ prompt store
\* Keys of config/prompts.yaml as used by the pipeline.
IdentifyKey == "identify_file"
BankStatementKey(bank) == Lower(bank) \o "_bank_statement"
CreditCardKey(bank) == Lower(bank) \o "_credit_card"

BankStatementBanks == {"picpay", "itau"}
CreditCardBanks == {"picpay", "itau", "xp"}

AllPromptKeys ==
    {IdentifyKey} \cup {BankStatementKey(b) : b \in BankStatementBanks}
                  \cup {CreditCardKey(b) : b \in CreditCardBanks}

\* The content of config/prompts.yaml: a template for each key.
Template(key) == "template of " \o key
CompletePrompts == [k \in AllPromptKeys |-> Template(k)]
Without(prompts, key) == [k \in (DOMAIN prompts) \ {key} |-> prompts[k]]

\* The prompt files explored: the complete one, two that lack a key, and
\* one in which a key is there with nothing after it.
PromptFiles ==
    {CompletePrompts,
     Without(CompletePrompts, IdentifyKey),
     Without(CompletePrompts, "itau_bank_statement"),
     [CompletePrompts EXCEPT !["picpay_credit_card"] = ""]}

\* A PromptLoader that has loaded nothing.
NoPrompts == << >>

\* --------------------------------------------------------- configuration
\* app.config: OPENAI_API_KEY, GOOGLE_DRIVE_CREDENTIALS_PATH and
\* GOOGLE_DRIVE_INPUT_FOLDER_ID are strings, empty when not set.
Configured == [api_key |-> TRUE, credentials_path |-> TRUE, input_folder_id |-> TRUE]

Configs ==
    {Configured,
     [Configured EXCEPT !.api_key = FALSE],
     [Configured EXCEPT !.credentials_path = FALSE],
     [Configured EXCEPT !.api_key = FALSE, !.credentials_path = FALSE],
     [Configured EXCEPT !.input_folder_id = FALSE]}

\* ------------------------------------------------------------------ state
VARIABLES
    config,         \* app.config: which of the settings are set
    drive,          \* ids of the files present in the remote drive
    fs,             \* temp directory: path -> None or [bytes, by]
    uploads,        \* per worker: CSV files the request created in the remote store
    promptFile,     \* content of config/prompts.yaml: key -> template
    loads,          \* calls of _load_prompts (count) and what the first one read
    pc,             \* per worker: position in the request it is serving
    req,            \* per worker: the request (endpoint, file_id, bank)
    prompt_loader,  \* per worker: OCRProcessor.prompt_loader.prompts
    op,             \* per worker: the OCRProcessor operation in progress
    loc,            \* per worker: the locals of that operation
    ret,            \* per worker: what the operation returned or raised
    handler,        \* per worker: the locals of the endpoint handler
    resp,           \* per worker: the HTTP response
    log             \* per worker: calls made while serving the request

vars == <<config, drive, fs, uploads, promptFile, loads, pc, req, prompt_loader, op, loc,
          ret, handler, resp, log>>

InitLoc ==
    [file_content |-> "", filename |-> None, temp_path |-> None, fd |-> "none",
     images |-> << >>, inferred |-> FALSE, response |-> None,
     csv_content |-> << >>, exc |-> None, prompt |-> ""]

InitHandler ==
    [files |-> << >>, i |-> 0, processed_files |-> << >>, failed_files |-> << >>,
     identification |-> None, iterations |-> << >>]

Init ==
    /\ config \in Configs
    /\ drive = FileIds
    /\ fs = [p \in TempPaths |-> None]
    /\ uploads = [r \in Runs |-> 0]
    /\ promptFile \in IF config = Configured THEN PromptFiles ELSE {CompletePrompts}
    /\ loads = [count |-> 0, first |-> None]
    /\ pc = [r \in Runs |-> "idle"]
    /\ req = [r \in Runs |-> None]
    /\ prompt_loader = [r \in Runs |-> NoPrompts]
    /\ op = [r \in Runs |-> None]
    /\ loc = [r \in Runs |-> InitLoc]
    /\ ret = [r \in Runs |-> None]
    /\ handler = [r \in Runs |-> InitHandler]
    /\ resp = [r \in Runs |-> None]
    /\ log = [r \in Runs |-> << >>]

IsExtraction(name) == name \in {"process_bank_statement", "process_credit_card_statement"}

\* Where the endpoint resumes when an operation returns or raises.
Continuation(endpoint, name) ==
    CASE endpoint = "identify-file" -> "h_identify"
      [] endpoint = "ocr-file" /\ name = "identify_file" -> "h_route"
      [] endpoint = "process-input-folder" /\ name = "identify_file" -> "f_route"
      [] endpoint = "process-input-folder" /\ IsExtraction(name) -> "f_collect"
      [] OTHER -> "h_extract"

\* A call of an OCRProcessor operation: its locals are fresh.
CallOp(r, name, file_id, bank) ==
    /\ op' = [op EXCEPT ![r] = [name |-> name, file_id |-> file_id, bank |-> bank]]
    /\ loc' = [loc EXCEPT ![r] = InitLoc]
    /\ ret' = [ret EXCEPT ![r] = None]
    /\ log' = [log EXCEPT ![r] = Append(@, [ev |-> "call", name |-> name,
                                           file_id |-> file_id, bank |-> bank])]
    /\ pc' = [pc EXCEPT ![r] = IF IsExtraction(name) THEN "get_prompt" ELSE "download"]

\* RaiseIn with a local retry: the failed statement is run again.
RaiseInRetry(r, e, inTry) ==
    /\ loc' = [loc EXCEPT ![r].exc = e]
    /\ pc' = pc

\* An exception leaves the current statement: through the finally block when
\* it was raised inside one, otherwise straight to the operation's handler.
RaiseIn(r, e, inTry) ==
    /\ loc' = [loc EXCEPT ![r].exc = e]
    /\ pc' = [pc EXCEPT ![r] = IF inTry THEN "cleanup" ELSE "op_except"]

\* ------------------------------------------------- endpoints: entry points
\* PromptLoader._load_prompts: yaml.safe_load of the prompt file as it is now.
LoadPrompts ==
    [count |-> IF loads.count < MaxLoads THEN loads.count + 1 ELSE loads.count,
     first |-> IF loads.first = None THEN [some |-> promptFile] ELSE loads.first]

\* raise HTTPException(status_code=..., detail=...)
HTTPException(status_code, detail) == [status |-> status_code, detail |-> detail]

\* get_llm_service and get_drive_service with their checks left out.
NoDependencyError(endpoint) == None

\* Depends(...): get_llm_service and get_drive_service raise HTTPException
\* 500 when their setting is empty.  get_ocr_processor has the LLM service
\* resolved first; process_input_folder asks for the drive service before
\* the processor.
DependencyError(endpoint) ==
    LET llm == HTTPException(500, "OpenAI API key not configured")
        gdrive == HTTPException(500, "Google Drive credentials not configured")
    IN  IF endpoint = "process-input-folder"
        THEN IF ~config.credentials_path THEN gdrive
             ELSE IF ~config.api_key THEN llm ELSE None
        ELSE IF ~config.api_key THEN llm
             ELSE IF ~config.credentials_path THEN gdrive ELSE None

\* The request ends at dependency resolution: the handler is not entered.
Refuse(r, endpoint, file_id, bank) ==
    /\ pc[r] = "idle"
    /\ req' = [req EXCEPT ![r] = [endpoint |-> endpoint, file_id |-> file_id, bank |-> bank]]
    /\ resp' = [resp EXCEPT ![r] = DependencyError(endpoint)]
    /\ pc' = [pc EXCEPT ![r] = "done"]
    /\ UNCHANGED <<loads, prompt_loader, op, loc, ret, log>>

\* Depends(get_ocr_processor): OCRProcessor.__init__ builds a PromptLoader,
\* which reads the prompt file.
Resolve(r, endpoint, file_id, bank) ==
    /\ pc[r] = "idle"
    /\ req' = [req EXCEPT ![r] = [endpoint |-> endpoint, file_id |-> file_id, bank |-> bank]]
    /\ prompt_loader' = [prompt_loader EXCEPT ![r] = promptFile]
    /\ loads' = LoadPrompts

\* POST /identify-file: ocr_processor.identify_file(request.file_id)
identify_file_endpoint(r) ==
    \E f \in FileIds :
        /\ IF DependencyError("identify-file") # None
           THEN Refuse(r, "identify-file", f, "")
           ELSE /\ Resolve(r, "identify-file", f, "")
                /\ CallOp(r, "identify_file", f, "")
                /\ UNCHANGED resp
        /\ UNCHANGED <<config, drive, fs, uploads, promptFile, handler>>

\* POST /ocr-file: first ocr_processor.identify_file(request.file_id)
ocr_file_endpoint(r) ==
    \E f \in FileIds :
        /\ IF DependencyError("ocr-file") # None
           THEN Refuse(r, "ocr-file", f, "")
           ELSE /\ Resolve(r, "ocr-file", f, "")
                /\ CallOp(r, "identify_file", f, "")
                /\ UNCHANGED resp
        /\ UNCHANGED <<config, drive, fs, uploads, promptFile, handler>>

\* POST /ocr-bank-statement-{picpay,itau}
bank_statement_endpoint(r) ==
    \E f \in FileIds, b \in BankStatementBanks :
        /\ IF DependencyError("ocr-bank-statement") # None
           THEN Refuse(r, "ocr-bank-statement", f, b)
           ELSE /\ Resolve(r, "ocr-bank-statement", f, b)
                /\ CallOp(r, "process_bank_statement", f, b)
                /\ UNCHANGED resp
        /\ UNCHANGED <<config, drive, fs, uploads, promptFile, handler>>

\* POST /ocr-cc-statement-{picpay,itau,xp}
credit_card_endpoint(r) ==
    \E f \in FileIds, b \in CreditCardBanks :
        /\ IF DependencyError("ocr-cc-statement") # None
           THEN Refuse(r, "ocr-cc-statement", f, b)
           ELSE /\ Resolve(r, "ocr-cc-statement", f, b)
                /\ CallOp(r, "process_credit_card_statement", f, b)
                /\ UNCHANGED resp
        /\ UNCHANGED <<config, drive, fs, uploads, promptFile, handler>>

\* ------------------------------------------------------ pipeline: download
\* GoogleDriveService.download_file: the call fails (no such file, transport
\* or authorization failure) or returns the bytes and the name of the file.
download_file(r) ==
    /\ pc[r] = "download"
    /\ \/ /\ RaiseIn(r, Exc("HttpError", "download failed"), FALSE)
          /\ log' = [log EXCEPT ![r] = Append(@, [ev |-> "download", file_id |-> op[r].file_id, ok |-> FALSE])]
       \/ /\ op[r].file_id \in drive
          /\ loc' = [loc EXCEPT ![r].file_content = DriveFiles[op[r].file_id].bytes,
                                ![r].filename = FileName(op[r].file_id)]
          /\ log' = [log EXCEPT ![r] = Append(@, [ev |-> "download", file_id |-> op[r].file_id, ok |-> TRUE])]
          /\ pc' = [pc EXCEPT ![r] = IF IsPdf(FileName(op[r].file_id)) THEN "save_open" ELSE "infer"]
    /\ UNCHANGED <<config, drive, fs, uploads, promptFile, loads, req, prompt_loader, op, ret, handler, resp>>

\* ---------------------------------------------------- pipeline: temp file
\* FileHandler.save_temp_file, open(temp_path, 'wb'): the file is created,
\* or truncated when it exists.
save_temp_file_open(r) ==
    /\ pc[r] = "save_open"
    /\ \/ /\ RaiseIn(r, Exc("OSError", "cannot open temp file"), FALSE)
          /\ UNCHANGED fs
       \/ /\ fs' = [fs EXCEPT ![TempPath(loc[r].filename)] = [bytes |-> "", by |-> r]]
          /\ loc' = [loc EXCEPT ![r].fd = "open"]
          /\ pc' = [pc EXCEPT ![r] = "save_write"]
    /\ UNCHANGED <<config, drive, uploads, promptFile, loads, req, prompt_loader, op, ret, handler, resp, log>>

\* FileHandler.save_temp_file, f.write(file_content) and return temp_path.
\* A write through a descriptor whose file was removed meanwhile leaves the
\* directory as it is.
save_temp_file_write(r) ==
    /\ pc[r] = "save_write"
    /\ LET path == TempPath(loc[r].filename)
       IN  \/ /\ loc' = [loc EXCEPT ![r].exc = Exc("OSError", "No space left on device"),
                                    ![r].fd = "closed"]
              /\ pc' = [pc EXCEPT ![r] = "op_except"]
              /\ UNCHANGED fs
           \/ /\ fs' = IF loc[r].fd = "open"
                       THEN [fs EXCEPT ![path] = [bytes |-> loc[r].file_content, by |-> r]]
                       ELSE fs
              /\ loc' = [loc EXCEPT ![r].temp_path = path, ![r].fd = "closed"]
              /\ pc' = [pc EXCEPT ![r] = "convert"]
    /\ UNCHANGED <<config, drive, uploads, promptFile, loads, req, prompt_loader, op, ret, handler, resp, log>>

\* FileHandler.convert_pdf_to_images(temp_path): rasterizes what is at the
\* path now; a missing, empty or unreadable file raises.
convert_pdf_to_images(r) ==
    /\ pc[r] = "convert"
    /\ LET file == fs[loc[r].temp_path]
           pages == IF file = None THEN << >> ELSE PdfPages(file.bytes)
       IN  \/ RaiseIn(r, Exc("PDFPageCountError", "Unable to get page count"), TRUE)
           \/ /\ pages # << >>
              /\ loc' = [loc EXCEPT ![r].images = pages]
              /\ pc' = [pc EXCEPT ![r] = "infer"]
    /\ UNCHANGED <<config, drive, fs, uploads, promptFile, loads, req, prompt_loader, op, ret, handler, resp, log>>

\* FileHandler.cleanup_temp_file(temp_path) in the finally block, then the
\* pending exception, if any, goes on.
cleanup_temp_file(r) ==
    /\ pc[r] = "cleanup"
    /\ fs' = [fs EXCEPT ![loc[r].temp_path] = None]
    /\ loc' = [q \in Runs |->
                IF q # r /\ loc[q].fd = "open" /\ TempPath(loc[q].filename) = loc[r].temp_path
                THEN [loc[q] EXCEPT !.fd = "orphan"]
                ELSE loc[q]]
    /\ pc' = [pc EXCEPT ![r] =
                IF loc[r].exc # None THEN "op_except"
                ELSE IF IsExtraction(op[r].name) THEN "upload" ELSE "parse"]
    /\ UNCHANGED <<config, drive, uploads, promptFile, loads, req, prompt_loader, op, ret, handler, resp, log>>

\* ----------------------------------------------------- pipeline: inference
\* get_prompt answering an empty template for a name it does not find,
\* instead of raising.
GetPromptOrEmpty(prompts, prompt_name) ==
    [value |-> Get(prompts, prompt_name, "")]

\* PromptLoader.get_prompt
get_prompt(prompts, prompt_name) ==
    LET prompt == Get(prompts, prompt_name, "")     \* None and "" are both falsy
    IN  IF prompt = ""
        THEN [raised |-> Exc("ValueError", "Prompt not found: " \o prompt_name)]
        ELSE [value |-> prompt]

\* ImagesSent with the first page alone for every document.
ImagesSentFirstPage(r) ==
    IF ~IsPdf(loc[r].filename) THEN << [raw |-> loc[r].file_content] >>
    ELSE << ImageToBytes(loc[r].images[1]) >>

\* The images one inference call carries.
ImagesSent(r) ==
    IF ~IsPdf(loc[r].filename) THEN << [raw |-> loc[r].file_content] >>
    ELSE IF op[r].name = "identify_file" \/ Len(loc[r].images) = 1
    THEN << ImageToBytes(loc[r].images[1]) >>
    ELSE [k \in 1..Len(loc[r].images) |-> ImageToBytes(loc[r].images[k])]

\* LLMService.analyze_image / analyze_multiple_images
InferenceCall(r) ==
    IF IsPdf(loc[r].filename) /\ IsExtraction(op[r].name) /\ Len(loc[r].images) # 1
    THEN "analyze_multiple_images" ELSE "analyze_image"

\* process_bank_statement / process_credit_card_statement: the prompt is
\* looked up before anything else.
extraction_get_prompt(r) ==
    /\ pc[r] = "get_prompt"
    /\ LET key == IF op[r].name = "process_bank_statement"
                  THEN BankStatementKey(op[r].bank) ELSE CreditCardKey(op[r].bank)
           p == get_prompt(prompt_loader[r], key)
       IN  IF Raised(p)
           THEN RaiseIn(r, p.raised, FALSE)
           ELSE /\ loc' = [loc EXCEPT ![r].prompt = p.value]
                /\ pc' = [pc EXCEPT ![r] = "download"]
    /\ UNCHANGED <<config, drive, fs, uploads, promptFile, loads, req, prompt_loader, op, ret, handler, resp, log>>

\* The inference call of identify_file, _process_pdf and _process_image.
\* identify_file looks its prompt up while building the call; the extraction
\* operations normalize the output as soon as it is there.
analyze(r) ==
    /\ pc[r] = "infer"
    /\ LET inTry == IsPdf(loc[r].filename)
           p == IF op[r].name = "identify_file"
                THEN get_prompt(prompt_loader[r], IdentifyKey)
                ELSE [value |-> loc[r].prompt]
           call(ok) == [ev |-> "infer", call |-> InferenceCall(r), images |-> ImagesSent(r),
                        prompt |-> p.value, ok |-> ok]
           after == IF inTry THEN "cleanup"
                    ELSE IF IsExtraction(op[r].name) THEN "upload" ELSE "parse"
       IN  IF Raised(p)
           THEN RaiseIn(r, p.raised, inTry) /\ UNCHANGED log
           ELSE \/ /\ RaiseIn(r, Exc("APIConnectionError", "Connection error."), inTry)
                   /\ log' = [log EXCEPT ![r] = Append(@, call(FALSE))]
                \/ /\ \E out \in IF op[r].name = "identify_file"
                                 THEN IdentifyOutputs ELSE ExtractOutputs :
                        loc' = [loc EXCEPT
                                  ![r].inferred = TRUE,
                                  ![r].response = out,
                                  ![r].csv_content =
                                      IF IsExtraction(op[r].name)
                                      THEN create_csv_from_llm_response(out) ELSE << >>]
                   /\ log' = [log EXCEPT ![r] = Append(@, call(TRUE))]
                   /\ pc' = [pc EXCEPT ![r] = after]
    /\ UNCHANGED <<config, drive, fs, uploads, promptFile, loads, req, prompt_loader, op, ret, handler, resp>>

\* ------------------------------------------- pipeline: end of an operation
Return(r, result) ==
    /\ ret' = [ret EXCEPT ![r] = result]
    /\ pc' = [pc EXCEPT ![r] = Continuation(req[r].endpoint, op[r].name)]

\* identify_file, "Parse response": json.loads with the JSONDecodeError
\* fallback, then {**identification, "file_id": ..., "processing_time": ...}.
ParseIdentification(response) ==
    LET parsed == JsonLoads(response)
    IN  IF Raised(parsed)
        THEN IF parsed.raised.cls = "JSONDecodeError"
             THEN [value |-> [dict |-> FallbackIdentification]]
             ELSE parsed
        ELSE IF "dict" \in DOMAIN parsed.value
        THEN parsed
        ELSE [raised |-> Exc("TypeError", "object is not a mapping")]

identify_file_parse(r) ==
    /\ pc[r] = "parse"
    /\ LET identification == ParseIdentification(loc[r].response)
       IN  IF Raised(identification)
           THEN RaiseIn(r, identification.raised, FALSE) /\ UNCHANGED ret
           ELSE /\ Return(r, [value |-> [file_id |-> op[r].file_id, processing_time |-> "t"]
                                         @@ identification.value.dict])
                /\ UNCHANGED loc
    /\ UNCHANGED <<config, drive, fs, uploads, promptFile, loads, req, prompt_loader, op, handler, resp, log>>

DocumentType(name) == IF name = "process_bank_statement" THEN "bank_statement" ELSE "credit_card"

\* Identifier and link of the n-th file the request creates in the remote
\* store.
CsvFileId(n) == "csv" \o ToString(n)
CsvFileUrl(n) == "https://drive.google.com/file/d/" \o CsvFileId(n)

\* SuccessResult with the counting step failing after the upload: the
\* failure result is returned.
ResultAfterUploadFailed(name, bank, csv_file_id, csv_file_url, csv_content) ==
    [success |-> FALSE,
     message |-> IF name = "process_bank_statement"
                 THEN "Failed to process bank statement"
                 ELSE "Failed to process credit card statement",
     error |-> "count failed"]

SuccessResult(name, bank, csv_file_id, csv_file_url, csv_content) ==
    [success |-> TRUE,
     message |-> "Successfully processed " \o bank \o
                 (IF name = "process_bank_statement" THEN " bank statement"
                  ELSE " credit card statement"),
     csv_file_id |-> csv_file_id,
     csv_file_url |-> csv_file_url,
     transactions_count |-> CountTransactions(csv_content),
     processing_time |-> "t"]

\* FailureResult with a transaction count of zero filled in.
FailureResultWithCount(name, e) ==
    [success |-> FALSE,
     message |-> IF name = "process_bank_statement"
                 THEN "Failed to process bank statement"
                 ELSE "Failed to process credit card statement",
     transactions_count |-> 0,
     error |-> StrExc(e)]

FailureResult(name, e) ==
    [success |-> FALSE,
     message |-> IF name = "process_bank_statement"
                 THEN "Failed to process bank statement"
                 ELSE "Failed to process credit card statement",
     error |-> StrExc(e)]

\* generate_filename, GoogleDriveService.upload_csv, the transaction count
\* and the success result.
upload_csv(r) ==
    /\ pc[r] = "upload"
    /\ LET name == generate_filename(op[r].bank, DocumentType(op[r].name), loc[r].filename)
           call(ok) == [ev |-> "upload", filename |-> name, csv_content |-> loc[r].csv_content,
                        ok |-> ok, id |-> IF ok THEN CsvFileId(uploads[r] + 1) ELSE ""]
       IN  \/ /\ RaiseIn(r, Exc("HttpError", "upload failed"), FALSE)
              /\ log' = [log EXCEPT ![r] = Append(@, call(FALSE))]
              /\ UNCHANGED <<uploads, ret>>
           \/ /\ uploads' = [uploads EXCEPT ![r] = @ + 1]
              /\ log' = [log EXCEPT ![r] = Append(@, call(TRUE))]
              /\ Return(r, [value |-> SuccessResult(op[r].name, op[r].bank,
                                CsvFileId(uploads[r] + 1), CsvFileUrl(uploads[r] + 1),
                                loc[r].csv_content)])
              /\ UNCHANGED loc
    /\ UNCHANGED <<config, drive, fs, promptFile, loads, req, prompt_loader, op, handler, resp>>

\* OperationOutcome with "raise" in the handler of every operation.
OperationOutcomeReraise(name, e) == [raised |-> e]

\* OperationOutcome with identify_file answering the fallback classification
\* instead of raising.
OperationOutcomeSwallow(name, e) ==
    IF IsExtraction(name) THEN [value |-> FailureResult(name, e)]
    ELSE [value |-> FallbackIdentification]

\* What an operation does with an exception that reaches its try block:
\* identify_file logs and re-raises, the extraction operations return a
\* failure result.
OperationOutcome(name, e) ==
    IF IsExtraction(name) THEN [value |-> FailureResult(name, e)] ELSE [raised |-> e]

operation_except(r) ==
    /\ pc[r] = "op_except"
    /\ Return(r, OperationOutcome(op[r].name, loc[r].exc))
    /\ UNCHANGED <<config, drive, fs, uploads, promptFile, loads, req, prompt_loader, op, loc, handler, resp, log>>

\* ------------------------------------------------ endpoints: continuations
Respond(r, response) ==
    /\ resp' = [resp EXCEPT ![r] = response]
    /\ pc' = [pc EXCEPT ![r] = "done"]

Ok(body) == [status |-> 200, body |-> body]

\* IdentifyFileResponse(bank=result.get("bank", "unknown"), ...)
IdentifyFileResponse(result, file_id) ==
    [bank |-> Get(result, "bank", "unknown"),
     document_type |-> Get(result, "document_type", "unknown"),
     confidence |-> Get(result, "confidence", 0),
     file_id |-> file_id]

\* OCRResponse built with success=True whatever the result says.
OCRResponseSucceeded(result) ==
    [success |-> TRUE,
     message |-> result.message,
     csv_file_id |-> Optional(result, "csv_file_id"),
     csv_file_url |-> Optional(result, "csv_file_url"),
     transactions_count |-> Optional(result, "transactions_count"),
     processing_time_seconds |-> Optional(result, "processing_time_seconds"),
     error |-> Optional(result, "error")]

\* OCRResponse(**result): the declared fields, None where the result has no
\* such key; keys that are not fields are ignored.
OCRResponse(result) ==
    [success |-> result.success,
     message |-> result.message,
     csv_file_id |-> Optional(result, "csv_file_id"),
     csv_file_url |-> Optional(result, "csv_file_url"),
     transactions_count |-> Optional(result, "transactions_count"),
     processing_time_seconds |-> Optional(result, "processing_time_seconds"),
     error |-> Optional(result, "error")]

\* POST /identify-file, after ocr_processor.identify_file
identify_file_respond(r) ==
    /\ pc[r] = "h_identify"
    /\ Respond(r, IF Raised(ret[r])
                  THEN HTTPException(500, "Failed to identify file: " \o StrExc(ret[r].raised))
                  ELSE Ok(IdentifyFileResponse(ret[r].value, req[r].file_id)))
    /\ UNCHANGED <<config, drive, fs, uploads, promptFile, loads, req, prompt_loader, op, loc, ret, handler, log>>

\* Route without the bank allow-lists: the document type alone decides.
RouteByDocumentType(identification) ==
    LET bank == Lower(Get(identification, "bank", "unknown"))
        document_type == Get(identification, "document_type", "unknown")
    IN  IF document_type = "bank_statement"
        THEN [call |-> "process_bank_statement", bank |-> bank]
        ELSE IF document_type = "credit_card"
        THEN [call |-> "process_credit_card_statement", bank |-> bank]
        ELSE [reject |-> "Unsupported document type: " \o document_type]

\* The routing step of ocr_file and process_input_folder: the operation to
\* call with its bank, or the reason there is none.
Route(identification) ==
    LET bank == Lower(Get(identification, "bank", "unknown"))
        document_type == Get(identification, "document_type", "unknown")
    IN  IF document_type = "bank_statement"
        THEN IF bank \in BankStatementBanks
             THEN [call |-> "process_bank_statement", bank |-> bank]
             ELSE [reject |-> "Unsupported bank for bank statements: " \o bank]
        ELSE IF document_type = "credit_card"
        THEN IF bank \in CreditCardBanks
             THEN [call |-> "process_credit_card_statement", bank |-> bank]
             ELSE [reject |-> "Unsupported bank for credit cards: " \o bank]
        ELSE [reject |-> "Unsupported document type: " \o document_type]

Rejected(route) == "reject" \in DOMAIN route

\* POST /ocr-file, after identify_file: route, or answer 400 / 500.
ocr_file_route(r) ==
    /\ pc[r] = "h_route"
    /\ IF Raised(ret[r])
       THEN /\ Respond(r, HTTPException(500, "Failed to process file: " \o StrExc(ret[r].raised)))
            /\ UNCHANGED <<op, loc, ret, log, handler>>
       ELSE LET route == Route(ret[r].value)
            IN  /\ handler' = [handler EXCEPT ![r].identification = ret[r]]
                /\ IF Rejected(route)
                   THEN /\ Respond(r, HTTPException(400, route.reject))
                        /\ UNCHANGED <<op, loc, ret, log>>
                   ELSE /\ CallOp(r, route.call, req[r].file_id, route.bank)
                        /\ UNCHANGED resp
    /\ UNCHANGED <<config, drive, fs, uploads, promptFile, loads, req, prompt_loader>>

\* The extraction endpoints and ocr_file, after the extraction operation:
\* return OCRResponse(**result).
extraction_respond(r) ==
    /\ pc[r] = "h_extract"
    /\ Respond(r, IF Raised(ret[r])
                  THEN HTTPException(500, "Failed to process file: " \o StrExc(ret[r].raised))
                  ELSE Ok(OCRResponse(ret[r].value)))
    /\ UNCHANGED <<config, drive, fs, uploads, promptFile, loads, req, prompt_loader, op, loc, ret, handler, log>>

\* ------------------------------------------------ process_input_folder
\* The listings explored: up to MaxFiles files of the drive, each once, in
\* the order of the drive.
DriveOrder == <<"f1", "f2", "f3", "f4">>

Position(f) == CHOOSE k \in 1..Len(DriveOrder) : DriveOrder[k] = f

Listings ==
    UNION {{l \in [1..n -> FileIds] :
                \A i, j \in 1..n : i < j => Position(l[i]) < Position(l[j])} : n \in 0..MaxFiles}

FolderMessage(processed_files, failed_files) ==
    "Processed " \o ToString(Len(processed_files)) \o " files successfully, "
                 \o ToString(Len(failed_files)) \o " files failed"

Failed(file_name, error) == [file_name |-> file_name, error |-> error]

\* POST /process-input-folder: list the input folder; an empty listing is
\* answered at once.
process_input_folder_endpoint(r) ==
    /\ IF DependencyError("process-input-folder") # None
       THEN Refuse(r, "process-input-folder", "", "") /\ UNCHANGED handler
       ELSE
       /\ Resolve(r, "process-input-folder", "", "")
       /\ UNCHANGED <<op, loc, ret>>
       /\ IF ~config.input_folder_id
          THEN /\ Respond(r, HTTPException(400, "Input folder ID not configured. Set google_drive.input_folder_id in config.yaml"))
               /\ UNCHANGED <<handler, log>>
          ELSE
          \/ /\ Respond(r, HTTPException(500, "Failed to process input folder: " \o "list failed"))
             /\ log' = [log EXCEPT ![r] = Append(@, [ev |-> "list", ok |-> FALSE])]
             /\ UNCHANGED handler
          \/ \E files \in Listings :
               /\ log' = [log EXCEPT ![r] = Append(@, [ev |-> "list", ok |-> TRUE])]
               /\ handler' = [handler EXCEPT ![r].files = files, ![r].i = 1]
               /\ IF files = << >>
                  THEN Respond(r, Ok([message |-> "No files found in input folder",
                                      processed_files |-> << >>,
                                      failed_files |-> << >>]))
                  ELSE /\ pc' = [pc EXCEPT ![r] = "f_iter"]
                       /\ UNCHANGED resp
    /\ UNCHANGED <<config, drive, fs, uploads, promptFile>>

\* EndIteration going on two files further.
EndIterationSkipping(r, processed_files, failed_files, identified, extracted) ==
    /\ handler' = [handler EXCEPT
                    ![r].processed_files = processed_files,
                    ![r].failed_files = failed_files,
                    ![r].i = @ + 2,
                    ![r].identification = None,
                    ![r].iterations = Append(@, [file_id |-> handler[r].files[handler[r].i],
                                                 identified |-> identified,
                                                 extracted |-> extracted])]
    /\ pc' = [pc EXCEPT ![r] = "f_iter"]
    /\ op' = [op EXCEPT ![r] = None]
    /\ loc' = [loc EXCEPT ![r] = InitLoc]
    /\ ret' = [ret EXCEPT ![r] = None]
    /\ log' = [log EXCEPT ![r] = << >>]

\* The end of an iteration: the lists as they are now, the next file, and a
\* note of what the iteration did (whether identify_file returned or raised,
\* and what the extraction operation returned if it was called).
EndIteration(r, processed_files, failed_files, identified, extracted) ==
    /\ handler' = [handler EXCEPT
                    ![r].processed_files = processed_files,
                    ![r].failed_files = failed_files,
                    ![r].i = @ + 1,
                    ![r].identification = None,
                    ![r].iterations = Append(@, [file_id |-> handler[r].files[handler[r].i],
                                                 identified |-> identified,
                                                 extracted |-> extracted])]
    /\ pc' = [pc EXCEPT ![r] = "f_iter"]
    /\ op' = [op EXCEPT ![r] = None]
    /\ loc' = [loc EXCEPT ![r] = InitLoc]
    /\ ret' = [ret EXCEPT ![r] = None]
    /\ log' = [log EXCEPT ![r] = << >>]

\* The loop head: a file of an unsupported format is recorded as failed,
\* any other file is identified first.
folder_next_file(r) ==
    /\ pc[r] = "f_iter"
    /\ handler[r].i <= Len(handler[r].files)
    /\ LET file_id == handler[r].files[handler[r].i]
       IN  IF ~SupportedFormat(FileName(file_id))
           THEN EndIteration(r, handler[r].processed_files,
                             Append(handler[r].failed_files,
                                    Failed(FileName(file_id), "Unsupported file format")),
                             None, None)
           ELSE /\ CallOp(r, "identify_file", file_id, "")
                /\ UNCHANGED handler
    /\ UNCHANGED <<config, drive, fs, uploads, promptFile, loads, req, prompt_loader, resp>>

\* What the loop does with the outcome of identify_file for the current
\* file: an exception is recorded by the per-file handler, an unroutable
\* classification is recorded as failed, otherwise the extraction operation
\* is called.
\* FolderRoute going on to an extraction when identify_file raised.
FolderRouteAnyway(identified) ==
    IF Raised(identified)
    THEN [call |-> "process_bank_statement", bank |-> "picpay"]
    ELSE Route(identified.value)

FolderRoute(identified) ==
    IF Raised(identified)
    THEN [reject |-> StrExc(identified.raised)]
    ELSE Route(identified.value)

folder_route(r) ==
    /\ pc[r] = "f_route"
    /\ LET file_id == handler[r].files[handler[r].i]
           route == FolderRoute(ret[r])
       IN  IF Rejected(route)
           THEN EndIteration(r, handler[r].processed_files,
                             Append(handler[r].failed_files, Failed(FileName(file_id), route.reject)),
                             ret[r], None)
           ELSE /\ CallOp(r, route.call, file_id, route.bank)
                /\ handler' = [handler EXCEPT ![r].identification = ret[r]]
    /\ UNCHANGED <<config, drive, fs, uploads, promptFile, loads, req, prompt_loader, resp>>

\* Collect without its else branch: a failed result is recorded nowhere.
CollectSuccessesOnly(lists, file_name, result) ==
    IF Get(result, "success", FALSE)
    THEN [lists EXCEPT !.processed_files =
            Append(@, [file_name |-> file_name,
                       csv_file_id |-> Optional(result, "csv_file_id"),
                       csv_file_url |-> Optional(result, "csv_file_url"),
                       transactions_count |-> Optional(result, "transactions_count"),
                       processing_time |-> Optional(result, "processing_time")])]
    ELSE lists

\* Collect recording a failed result in both lists.
CollectInBoth(lists, file_name, result) ==
    LET entry == [file_name |-> file_name,
                  csv_file_id |-> Optional(result, "csv_file_id"),
                  csv_file_url |-> Optional(result, "csv_file_url"),
                  transactions_count |-> Optional(result, "transactions_count"),
                  processing_time |-> Optional(result, "processing_time")]
    IN  IF Get(result, "success", FALSE)
        THEN [lists EXCEPT !.processed_files = Append(@, entry)]
        ELSE [lists EXCEPT !.processed_files = Append(@, entry),
                           !.failed_files =
                               Append(@, Failed(file_name, Get(result, "message", "Processing failed")))]

\* if result.get("success"): processed_files.append(...) else
\* failed_files.append(...)
Collect(lists, file_name, result) ==
    IF Get(result, "success", FALSE)
    THEN [lists EXCEPT !.processed_files =
            Append(@, [file_name |-> file_name,
                       csv_file_id |-> Optional(result, "csv_file_id"),
                       csv_file_url |-> Optional(result, "csv_file_url"),
                       transactions_count |-> Optional(result, "transactions_count"),
                       processing_time |-> Optional(result, "processing_time")])]
    ELSE [lists EXCEPT !.failed_files =
            Append(@, Failed(file_name, Get(result, "message", "Processing failed")))]

\* After the extraction operation for the current file: the result goes to
\* processed_files or to failed_files; an exception goes to the per-file
\* handler.
folder_collect(r) ==
    /\ pc[r] = "f_collect"
    /\ LET file_id == handler[r].files[handler[r].i]
           lists == [processed_files |-> handler[r].processed_files,
                     failed_files |-> handler[r].failed_files]
           after == IF Raised(ret[r])
                    THEN [lists EXCEPT !.failed_files =
                            Append(@, Failed(FileName(file_id), StrExc(ret[r].raised)))]
                    ELSE Collect(lists, FileName(file_id), ret[r].value)
       IN  EndIteration(r, after.processed_files, after.failed_files,
                        handler[r].identification, ret[r])
    /\ UNCHANGED <<config, drive, fs, uploads, promptFile, loads, req, prompt_loader, resp>>

\* After the last file: the summary.
folder_return(r) ==
    /\ pc[r] = "f_iter"
    /\ handler[r].i > Len(handler[r].files)
    /\ Respond(r, Ok([message |-> FolderMessage(handler[r].processed_files, handler[r].failed_files),
                      total_files |-> Len(handler[r].files),
                      processed_files |-> handler[r].processed_files,
                      failed_files |-> handler[r].failed_files]))
    /\ UNCHANGED <<config, drive, fs, uploads, promptFile, loads, req, prompt_loader, op, loc, ret, handler, log>>

\* The response is sent; what the request held is gone with it.
finish_request(r) ==
    /\ pc[r] = "done"
    /\ pc' = [pc EXCEPT ![r] = "idle"]
    /\ uploads' = [uploads EXCEPT ![r] = 0]
    /\ req' = [req EXCEPT ![r] = None]
    /\ prompt_loader' = [prompt_loader EXCEPT ![r] = NoPrompts]
    /\ op' = [op EXCEPT ![r] = None]
    /\ loc' = [loc EXCEPT ![r] = InitLoc]
    /\ ret' = [ret EXCEPT ![r] = None]
    /\ handler' = [handler EXCEPT ![r] = InitHandler]
    /\ resp' = [resp EXCEPT ![r] = None]
    /\ log' = [log EXCEPT ![r] = << >>]
    /\ UNCHANGED <<config, drive, fs, promptFile, loads>>

\* ---------------------------------------------------------- specification
\* uvicorn.run("app.main:app") starts one worker, and the handlers are
\* coroutines that never await: requests are served one after the other.
Worker == 1

Next ==
    \/ identify_file_endpoint(Worker)
    \/ ocr_file_endpoint(Worker)
    \/ bank_statement_endpoint(Worker)
    \/ credit_card_endpoint(Worker)
    \/ process_input_folder_endpoint(Worker)
    \/ extraction_get_prompt(Worker)
    \/ download_file(Worker)
    \/ save_temp_file_open(Worker)
    \/ save_temp_file_write(Worker)
    \/ convert_pdf_to_images(Worker)
    \/ analyze(Worker)
    \/ cleanup_temp_file(Worker)
    \/ identify_file_parse(Worker)
    \/ upload_csv(Worker)
    \/ operation_except(Worker)
    \/ identify_file_respond(Worker)
    \/ ocr_file_route(Worker)
    \/ extraction_respond(Worker)
    \/ folder_next_file(Worker)
    \/ folder_route(Worker)
    \/ folder_collect(Worker)
    \/ folder_return(Worker)
    \/ finish_request(Worker)

Spec == Init /\ [][Next]_vars

\* The hosting runtime may serve requests concurrently: two workers run
\* pipeline operations over the one temp directory, their steps interleaved.
InitConc ==
    /\ config = Configured
    /\ drive = {"f1", "f2"}
    /\ fs = [p \in TempPaths |-> None]
    /\ uploads = [r \in Runs |-> 0]
    /\ promptFile = CompletePrompts
    /\ loads = [count |-> 0, first |-> None]
    /\ pc = [r \in Runs |-> "idle"]
    /\ req = [r \in Runs |-> None]
    /\ prompt_loader = [r \in Runs |-> NoPrompts]
    /\ op = [r \in Runs |-> None]
    /\ loc = [r \in Runs |-> InitLoc]
    /\ ret = [r \in Runs |-> None]
    /\ handler = [r \in Runs |-> InitHandler]
    /\ resp = [r \in Runs |-> None]
    /\ log = [r \in Runs |-> << >>]

NextConc ==
    \E r \in Runs :
        \/ identify_file_endpoint(r)
        \/ bank_statement_endpoint(r)
        \/ extraction_get_prompt(r)
        \/ download_file(r)
        \/ save_temp_file_open(r)
        \/ save_temp_file_write(r)
        \/ convert_pdf_to_images(r)
        \/ analyze(r)
        \/ cleanup_temp_file(r)
        \/ identify_file_parse(r)
        \/ upload_csv(r)
        \/ operation_except(r)
        \/ identify_file_respond(r)
        \/ extraction_respond(r)
        \/ finish_request(r)

SpecConc == InitConc /\ [][NextConc]_vars

\* The prompt file is a file of the host: it may be edited while the
\* service runs.
edit_prompts_file ==
    /\ \E content \in PromptFiles \ {promptFile} : promptFile' = content
    /\ UNCHANGED <<config, drive, fs, uploads, loads, pc, req, prompt_loader, op, loc,
                   ret, handler, resp, log>>

InitPrompts ==
    /\ config = Configured
    /\ drive = {"f1", "f3"}
    /\ fs = [p \in TempPaths |-> None]
    /\ uploads = [r \in Runs |-> 0]
    /\ promptFile \in PromptFiles
    /\ loads = [count |-> 0, first |-> None]
    /\ pc = [r \in Runs |-> "idle"]
    /\ req = [r \in Runs |-> None]
    /\ prompt_loader = [r \in Runs |-> NoPrompts]
    /\ op = [r \in Runs |-> None]
    /\ loc = [r \in Runs |-> InitLoc]
    /\ ret = [r \in Runs |-> None]
    /\ handler = [r \in Runs |-> InitHandler]
    /\ resp = [r \in Runs |-> None]
    /\ log = [r \in Runs |-> << >>]

NextPrompts ==
    \/ edit_prompts_file
    \/ identify_file_endpoint(Worker)
    \/ bank_statement_endpoint(Worker)
    \/ credit_card_endpoint(Worker)
    \/ extraction_get_prompt(Worker)
    \/ download_file(Worker)
    \/ save_temp_file_open(Worker)
    \/ save_temp_file_write(Worker)
    \/ convert_pdf_to_images(Worker)
    \/ analyze(Worker)
    \/ cleanup_temp_file(Worker)
    \/ identify_file_parse(Worker)
    \/ upload_csv(Worker)
    \/ operation_except(Worker)
    \/ identify_file_respond(Worker)
    \/ extraction_respond(Worker)
    \/ finish_request(Worker)

\* The single worker, with a prompt file that may change under it.
SpecPrompts == InitPrompts /\ [][NextPrompts]_vars

\* ------------------------------------------------- the services, called
\* The operations of PromptLoader and CSVGenerator called on their own, as
\* the tests of the repository call them: op holds the call and ret what it
\* returned or raised.
PromptNames == AllPromptKeys \cup {"nonexistent_prompt"}

Call(name, args, result) ==
    /\ op' = [op EXCEPT ![Worker] = [name |-> name, args |-> args]]
    /\ ret' = [ret EXCEPT ![Worker] = result]
    /\ UNCHANGED <<config, drive, fs, uploads, promptFile, loads, pc, req, prompt_loader,
                   loc, handler, resp, log>>

\* loader.get_prompt(prompt_name)
call_get_prompt ==
    \E prompt_name \in PromptNames :
        Call("get_prompt", <<prompt_name>>, get_prompt(prompt_loader[Worker], prompt_name))

\* The lines an inference text is made of here, and the texts: up to
\* MaxLines of them, the outputs the pipeline is given, and no text at all.
TextLines ==
    {<<"date", "description", "amount">>,
     <<" date", "description", "amount">>,
     <<"2023-01-01", "Test", "100.00">>,
     <<"2023-01-02", "Test2", "100.00", "7">>,
     <<"Here is the table:">>,
     <<"">>}

LlmResponses ==
    {Str(lines) : lines \in UNION {[1..n -> TextLines] : n \in 1..MaxLines}}
        \cup ExtractOutputs

\* CSVGenerator.create_csv_from_llm_response(llm_response).  The methods of
\* CSVGenerator are static and keep no state: one call of them is looked at
\* from the start.
call_create_csv_from_llm_response ==
    \E llm_response \in LlmResponses :
        /\ op[Worker] = None
        /\ Call("create_csv_from_llm_response", <<llm_response>>,
                NormalizeOutcome(TryNormalize(llm_response)))

\* The output of the normalizer handed to it again.
call_normalize_again ==
    /\ op[Worker] # None
    /\ op[Worker].name = "create_csv_from_llm_response"
    /\ ~Raised(ret[Worker])
    /\ Call("normalize_again", <<op[Worker].args[1], ret[Worker].value>>,
            NormalizeOutcome(TryNormalize(Str(ret[Worker].value))))

\* Transaction dictionaries: some of the schema keys and an extra key,
\* with a value each.
TransactionKeys == {"date", "description", "amount", "balance", "currency"}
Transactions == UNION {[keys -> {"x"}] : keys \in SUBSET TransactionKeys}
TransactionLists == UNION {[1..n -> Transactions] : n \in 0..MaxTransactions}

\* CSVGenerator.create_csv_from_transactions(transactions)
call_create_csv_from_transactions ==
    \E transactions \in TransactionLists :
        /\ op[Worker] = None
        /\ Call("create_csv_from_transactions", <<transactions>>,
                [value |-> create_csv_from_transactions(transactions)])

\* CSVGenerator.generate_filename(bank, document_type, original_filename)
OriginalFilenames ==
    {None, EmptyName,
     [stem |-> "statement", ext |-> "pdf"],
     [stem |-> "picpay_bank_statement", ext |-> "pdf"],
     [stem |-> "scan", ext |-> ""]}

call_generate_filename ==
    \E bank \in CreditCardBanks, document_type \in {"bank_statement", "credit_card"},
       original_filename \in OriginalFilenames :
        /\ op[Worker] = None
        /\ Call("generate_filename", <<bank, document_type, original_filename>>,
                [value |-> generate_filename(bank, document_type, original_filename)])

\* LLMService.retry_with_backoff(func, max_retries=..., base_delay=...):
\* for attempt in range(max_retries).  With an empty range the loop body is
\* never entered and the function falls off its end: it returns None.
BaseDelays == {1, 2}

call_retry_with_backoff ==
    \E max_retries \in 0..MaxRetries, base_delay \in BaseDelays :
        /\ pc[Worker] = "idle"
        /\ op[Worker] = None
        /\ loc' = [loc EXCEPT ![Worker] =
                     [max_retries |-> max_retries, base_delay |-> base_delay, attempt |-> 0,
                      invocations |-> << >>, sleeps |-> << >>,
                      outcome |-> IF max_retries = 0 THEN [value |-> None] ELSE None]]
        /\ pc' = [pc EXCEPT ![Worker] = IF max_retries = 0 THEN "retry_done" ELSE "retry_try"]
        /\ UNCHANGED <<config, drive, fs, uploads, promptFile, loads, req, prompt_loader,
                       op, ret, handler, resp, log>>

\* try: return func(*args, **kwargs); except Exception: raise when this was
\* the last attempt of the range, else go on to the delay.
retry_try ==
    /\ pc[Worker] = "retry_try"
    /\ LET l == loc[Worker]
           n == l.attempt
       IN  \/ /\ loc' = [loc EXCEPT ![Worker].invocations =
                            Append(@, [value |-> "result" \o ToString(n)]),
                                     ![Worker].outcome = [value |-> "result" \o ToString(n)]]
              /\ pc' = [pc EXCEPT ![Worker] = "retry_done"]
           \/ LET e == Exc("Exception", "failure " \o ToString(n))
              IN  IF n = l.max_retries - 1
                  THEN /\ loc' = [loc EXCEPT ![Worker].invocations = Append(@, [raised |-> e]),
                                             ![Worker].outcome = [raised |-> e]]
                       /\ pc' = [pc EXCEPT ![Worker] = "retry_done"]
                  ELSE /\ loc' = [loc EXCEPT ![Worker].invocations = Append(@, [raised |-> e])]
                       /\ pc' = [pc EXCEPT ![Worker] = "retry_sleep"]
    /\ UNCHANGED <<config, drive, fs, uploads, promptFile, loads, req, prompt_loader,
                   op, ret, handler, resp, log>>

\* delay = base_delay * (2 ** attempt); time.sleep(delay); next attempt.
retry_sleep ==
    /\ pc[Worker] = "retry_sleep"
    /\ loc' = [loc EXCEPT ![Worker].sleeps = Append(@, loc[Worker].base_delay * 2^loc[Worker].attempt),
                          ![Worker].attempt = @ + 1]
    /\ pc' = [pc EXCEPT ![Worker] = "retry_try"]
    /\ UNCHANGED <<config, drive, fs, uploads, promptFile, loads, req, prompt_loader,
                   op, ret, handler, resp, log>>

\* A PromptLoader has been built from the prompt file.
InitFunctions ==
    /\ config = Configured
    /\ drive = FileIds
    /\ fs = [p \in TempPaths |-> None]
    /\ uploads = [r \in Runs |-> 0]
    /\ promptFile \in PromptFiles
    /\ loads = [count |-> 1, first |-> [some |-> promptFile]]
    /\ pc = [r \in Runs |-> "idle"]
    /\ req = [r \in Runs |-> None]
    /\ prompt_loader = [r \in Runs |-> IF r = Worker THEN promptFile ELSE NoPrompts]
    /\ op = [r \in Runs |-> None]
    /\ loc = [r \in Runs |-> InitLoc]
    /\ ret = [r \in Runs |-> None]
    /\ handler = [r \in Runs |-> InitHandler]
    /\ resp = [r \in Runs |-> None]
    /\ log = [r \in Runs |-> << >>]

NextFunctions ==
    \/ call_get_prompt
    \/ call_create_csv_from_llm_response
    \/ call_normalize_again
    \/ call_create_csv_from_transactions
    \/ call_generate_filename
    \/ call_retry_with_backoff
    \/ retry_try
    \/ retry_sleep

SpecFunctions == InitFunctions /\ [][NextFunctions]_vars

\* ================================================================ claims
\* An extraction operation has returned to its caller.
ExtractionReturned(r) == pc[r] \in {"h_extract", "f_collect"}

\* identify_file has returned to its caller, or raised.
IdentifyReturned(r) == pc[r] \in {"h_identify", "h_route", "f_route"}

ExtractionEndpoints == {"ocr-file", "ocr-bank-statement", "ocr-cc-statement"}

CsvFields == {"csv_file_id", "csv_file_url", "transactions_count"}

\* C2: an extraction result is never partially filled: success = false
\* implies that csv_file_id, csv_file_url and transactions_count are all
\* absent, success = true implies that all three are present; the same holds
\* of the OCRResponse built from the result.
C2_ResultNeverPartial ==
    \A r \in Runs :
        /\ (ExtractionReturned(r) /\ ~Raised(ret[r])) =>
            LET result == ret[r].value
            IN  /\ result.success = FALSE => CsvFields \cap DOMAIN result = {}
                /\ result.success = TRUE => CsvFields \subseteq DOMAIN result
        /\ (pc[r] = "done" /\ req[r].endpoint \in ExtractionEndpoints /\ resp[r].status = 200) =>
            LET body == resp[r].body
            IN  /\ body.success = FALSE => \A f \in CsvFields : body[f] = None
                /\ body.success = TRUE => \A f \in CsvFields : body[f] # None

\* An extraction whose upload failed, after the CSV was there, has answered
\* with a failure response.
C2_Witness ==
    \E r \in Runs :
        /\ pc[r] = "done"
        /\ req[r].endpoint \in ExtractionEndpoints
        /\ resp[r].status = 200
        /\ resp[r].body.success = FALSE
        /\ loc[r].csv_content # << >>
        /\ loc[r].exc = Exc("HttpError", "upload failed")

\* C3: every CSV handed to upload_csv has the header
\* date,description,amount,balance,category,installments, whatever the
\* inference step returned.
C3_UploadedCsvHasSchemaHeader ==
    \A r \in Runs :
        /\ pc[r] = "upload" => Header(loc[r].csv_content) = SchemaColumns
        /\ \A k \in 1..Len(log[r]) :
            log[r][k].ev = "upload" => Header(log[r][k].csv_content) = SchemaColumns

\* A CSV made from prose without a comma has been uploaded.
C3_Witness ==
    \E r \in Runs :
        /\ loc[r].response = ProseOnly
        /\ \E k \in 1..Len(log[r]) : log[r][k].ev = "upload" /\ log[r][k].ok

\* C4: identify_file re-raises: when download, conversion or inference fails,
\* the exception reaches the identify-file endpoint, which answers 500 with
\* the text of the failure in the detail; the request has written nothing to
\* the remote store, and nothing of it is left once it is answered.
C4_IdentifyReraises ==
    \A r \in Runs :
        /\ (IdentifyReturned(r) /\ loc[r].exc # None) => ret[r] = [raised |-> loc[r].exc]
        /\ (pc[r] = "done" /\ req[r].endpoint = "identify-file" /\ loc[r].exc # None) =>
            /\ resp[r] = HTTPException(500, "Failed to identify file: " \o StrExc(loc[r].exc))
            /\ uploads[r] = 0
        /\ pc[r] = "idle" =>
            /\ ret[r] = None /\ resp[r] = None /\ loc[r] = InitLoc
            /\ handler[r] = InitHandler

\* identify-file has answered 500 after the inference call failed.
C4_Witness ==
    \E r \in Runs :
        /\ pc[r] = "done"
        /\ req[r].endpoint = "identify-file"
        /\ loc[r].exc = Exc("APIConnectionError", "Connection error.")
        /\ resp[r].status = 500

\* C5: whenever the inference output of an identify operation is not a
\* classification structure (text that is not JSON, JSON wrapped in other
\* text, JSON that is not an object, no output), identify-file answers
\* bank = unknown, document_type = unknown, confidence = 0.0 and the request
\* does not fail.
C5_UnparsableGivesUnknown ==
    \A r \in Runs :
        (/\ pc[r] = "done"
         /\ req[r].endpoint = "identify-file"
         /\ loc[r].inferred
         /\ loc[r].response \in Unparsable) =>
            /\ resp[r].status = 200
            /\ resp[r].body.bank = "unknown"
            /\ resp[r].body.document_type = "unknown"
            /\ resp[r].body.confidence = 0

\* The classification has a routable document type and a bank that, in the
\* lower case the routing step compares, is outside the allow-list of that
\* type.
UnsupportedBank(identified) ==
    /\ identified # None
    /\ ~Raised(identified)
    /\ LET bank == Lower(Get(identified.value, "bank", "unknown"))
           document_type == Get(identified.value, "document_type", "unknown")
       IN  \/ document_type = "bank_statement" /\ bank \notin {"picpay", "itau"}
           \/ document_type = "credit_card" /\ bank \notin {"picpay", "itau", "xp"}

UnsupportedBankError(identified) ==
    LET bank == Lower(Get(identified.value, "bank", "unknown"))
    IN  IF Get(identified.value, "document_type", "unknown") = "bank_statement"
        THEN "Unsupported bank for bank statements: " \o bank
        ELSE "Unsupported bank for credit cards: " \o bank

ExtractionCalled(r) ==
    \/ op[r] # None /\ IsExtraction(op[r].name)
    \/ \E k \in 1..Len(log[r]) : log[r][k].ev = "call" /\ IsExtraction(log[r][k].name)

\* C6: routing rejects a bank outside the allow-list of the document type
\* without attempting extraction: neither extraction operation is called for
\* the file, ocr-file answers 400 with an "unsupported bank" detail, and the
\* folder loop records the file as failed with that error.
C6_UnsupportedBankNotExtracted ==
    \A r \in Runs :
        /\ UnsupportedBank(handler[r].identification) =>
            /\ ~ExtractionCalled(r)
            /\ req[r].endpoint = "ocr-file"
            /\ pc[r] = "done"
            /\ resp[r] = HTTPException(400, UnsupportedBankError(handler[r].identification))
        /\ \A k \in 1..Len(handler[r].iterations) :
            LET it == handler[r].iterations[k]
            IN  UnsupportedBank(it.identified) =>
                    /\ it.extracted = None
                    /\ \E j \in 1..Len(handler[r].failed_files) :
                        /\ handler[r].failed_files[j].file_name = FileName(it.file_id)
                        /\ handler[r].failed_files[j].error = UnsupportedBankError(it.identified)

\* ocr-file has answered 400 for a bank statement of xp.
C6_Witness ==
    \E r \in Runs :
        /\ pc[r] = "done"
        /\ req[r].endpoint = "ocr-file"
        /\ handler[r].identification =
              [value |-> [file_id |-> req[r].file_id, processing_time |-> "t",
                          bank |-> "xp", document_type |-> "bank_statement",
                          confidence |-> 90]]
        /\ resp[r].status = 400

\* What an iteration of the folder loop did.
IdentifyFailed(it) == it.identified # None /\ Raised(it.identified)
ExtractionFailed(it) ==
    it.extracted # None /\ (Raised(it.extracted) \/ ~it.extracted.value.success)
Fails(it) == IdentifyFailed(it) \/ ExtractionFailed(it)
Extracted(it) ==
    it.extracted # None /\ ~Raised(it.extracted) /\ it.extracted.value.success

\* Entries of a list of the response that name the file, and iterations on
\* a file of that name among the iterations ks.
Entries(list, file_name) ==
    Cardinality({j \in 1..Len(list) : list[j].file_name = file_name})

Visits(iterations, file_name, ks) ==
    Cardinality({k \in ks : FileName(iterations[k].file_id) = file_name})

FailsAt(iterations) == {k \in 1..Len(iterations) : Fails(iterations[k])}
NotFailsAt(iterations) == {k \in 1..Len(iterations) : ~Fails(iterations[k])}
ExtractedAt(iterations) == {k \in 1..Len(iterations) : Extracted(iterations[k])}
NotExtractedAt(iterations) == {k \in 1..Len(iterations) : ~Extracted(iterations[k])}

\* process-input-folder has come to its end over a listing that is not empty.
FolderAnswered(r) ==
    pc[r] = "done" /\ req[r].endpoint = "process-input-folder" /\ handler[r].files # << >>

\* C7 as stated: whichever files fail in identify or in extraction (by
\* raising or by a success = false result), the loop goes through every file
\* of the listing, every file that does not fail has an entry in
\* processed_files, every failing file has an entry in failed_files, and the
\* request returns normally.
C7_FailureIsolation ==
    \A r \in Runs :
        FolderAnswered(r) =>
            /\ resp[r].status = 200
            /\ Len(handler[r].iterations) = Len(handler[r].files)
            /\ \A k \in 1..Len(handler[r].iterations) :
                    handler[r].iterations[k].file_id = handler[r].files[k]
            /\ \A name \in FileNames :
                /\ Entries(resp[r].body.failed_files, name)
                        >= Visits(handler[r].iterations, name, FailsAt(handler[r].iterations))
                /\ Entries(resp[r].body.processed_files, name)
                        >= Visits(handler[r].iterations, name, NotFailsAt(handler[r].iterations))

\* C7 as amended: the loop goes through every file of the listing, every
\* file whose extraction returned success = true has its one entry in
\* processed_files, every other file (one that failed, one of an unsupported
\* format, one with an unroutable classification) has its one entry in
\* failed_files, and the request returns normally.
C7_FailureIsolationAmended ==
    \A r \in Runs :
        FolderAnswered(r) =>
            /\ resp[r].status = 200
            /\ Len(handler[r].iterations) = Len(handler[r].files)
            /\ \A k \in 1..Len(handler[r].iterations) :
                    handler[r].iterations[k].file_id = handler[r].files[k]
            /\ \A name \in FileNames :
                /\ Entries(resp[r].body.processed_files, name)
                        = Visits(handler[r].iterations, name, ExtractedAt(handler[r].iterations))
                /\ Entries(resp[r].body.failed_files, name)
                        = Visits(handler[r].iterations, name, NotExtractedAt(handler[r].iterations))

\* The folder run has answered after a first file that failed in extraction
\* and a second file that was extracted.
C7_Witness ==
    \E r \in Runs :
        /\ FolderAnswered(r)
        /\ Len(handler[r].iterations) >= 2
        /\ ExtractionFailed(handler[r].iterations[1])
        /\ Extracted(handler[r].iterations[2])

\* C8: every successful response of process-input-folder carries message,
\* total_files, processed_files and failed_files, and total_files is the
\* number of files of the listing, the empty listing included.
C8_FolderResponseFields ==
    \A r \in Runs :
        (pc[r] = "done" /\ req[r].endpoint = "process-input-folder" /\ resp[r].status = 200) =>
            /\ {"message", "total_files", "processed_files", "failed_files"}
                    \subseteq DOMAIN resp[r].body
            /\ resp[r].body.total_files = Len(handler[r].files)

\* C9: once identify_file or an extraction operation on a PDF has returned or
\* raised, the temp file the call created no longer exists, on every exit
\* path, a failure while writing the temp file included.
C9_TempFileRemoved ==
    \A r \in Runs :
        (/\ pc[r] \in {"h_identify", "h_route", "f_route", "h_extract", "f_collect", "done"}
         /\ loc[r].fd # "none") =>
            fs[TempPath(loc[r].filename)] = None

\* C10: for any interleaving of two pipeline runs, from the return of
\* save_temp_file to the run's own cleanup the temp file exists and holds the
\* bytes the run downloaded, written by that run, and the pages converted
\* are the pages of those bytes.
C10_RunsShareNoState ==
    \A r \in Runs :
        (pc[r] \in {"convert", "infer", "cleanup"} /\ loc[r].temp_path # None) =>
            /\ fs[loc[r].temp_path] = [bytes |-> loc[r].file_content, by |-> r]
            /\ loc[r].images # << >> => loc[r].images = PdfPages(loc[r].file_content)

\* C11: the prompt set is loaded once and stays fixed for the lifetime of
\* the process: over any sequence of requests the prompt file is read at
\* most once, and the templates a request works with are those of that
\* first read (nothing in the service calls reload()).
C11_PromptsLoadedOnce ==
    /\ loads.count <= 1
    /\ \A r \in Runs :
        pc[r] # "idle" => prompt_loader[r] = loads.first.some

Called(name) == op[Worker] # None /\ op[Worker].name = name

\* C12 as stated: get_prompt(name) returns the stored template for every
\* name present in the loaded set, fails if and only if the name is absent
\* from it, and leaves the loaded set as it was.
C12_LookupFailsIffAbsent ==
    Called("get_prompt") =>
        LET prompt_name == op[Worker].args[1]
            prompts == prompt_loader[Worker]
        IN  /\ prompt_name \in DOMAIN prompts => ret[Worker] = [value |-> prompts[prompt_name]]
            /\ prompt_name \notin DOMAIN prompts => Raised(ret[Worker])
            /\ prompts = loads.first.some

\* C12 as amended: get_prompt(name) returns the stored template for every
\* name present in the loaded set with a template that is not empty, fails
\* (ValueError "Prompt not found: <name>") if and only if the name is absent
\* or its template is empty, and leaves the loaded set as it was.
C12_LookupAmended ==
    Called("get_prompt") =>
        LET prompt_name == op[Worker].args[1]
            prompts == prompt_loader[Worker]
            stored == prompt_name \in DOMAIN prompts /\ prompts[prompt_name] # ""
        IN  /\ stored => ret[Worker] = [value |-> prompts[prompt_name]]
            /\ ~stored => ret[Worker] = [raised |-> Exc("ValueError", "Prompt not found: " \o prompt_name)]
            /\ prompts = loads.first.some

\* A lookup of a name the loaded set lacks has failed, in a loader that holds
\* other names.
C12_Witness ==
    /\ Called("get_prompt")
    /\ op[Worker].args[1] = "identify_file"
    /\ "identify_file" \notin DOMAIN prompt_loader[Worker]
    /\ "xp_credit_card" \in DOMAIN prompt_loader[Worker]
    /\ Raised(ret[Worker])

\* The prompt key the endpoint of the request selects.
SelectedKey(request) ==
    CASE request.endpoint = "identify-file" -> IdentifyKey
      [] request.endpoint = "ocr-bank-statement" -> BankStatementKey(request.bank)
      [] request.endpoint = "ocr-cc-statement" -> CreditCardKey(request.bank)

PipelineCalls(r) ==
    {k \in 1..Len(log[r]) : log[r][k].ev \in {"download", "infer", "upload"}}

\* C13: when the template for the selected key (identify_file,
\* {bank}_bank_statement, {bank}_credit_card) is absent, the endpoint
\* answers with a server error and no download, conversion, inference or
\* upload call has been made for the request.
C13_MissingPromptIsServerError ==
    \A r \in Runs :
        (/\ pc[r] = "done"
         /\ req[r].endpoint \in {"identify-file", "ocr-bank-statement", "ocr-cc-statement"}
         /\ SelectedKey(req[r]) \notin DOMAIN prompt_loader[r]) =>
            /\ resp[r].status = 500
            /\ PipelineCalls(r) = {}
            /\ loc[r].fd = "none"
            /\ loc[r].images = << >>

\* C14: when the LLM API key or the drive credentials path is not set,
\* identify-file, ocr-file, the ocr-bank-statement and ocr-cc-statement
\* endpoints and process-input-folder answer 500 at dependency resolution:
\* the request is over with nothing loaded, called, listed, downloaded,
\* inferred or uploaded.
C14_MissingCredentialAnswers500 ==
    \A r \in Runs :
        (pc[r] # "idle" /\ (~config.api_key \/ ~config.credentials_path)) =>
            /\ pc[r] = "done"
            /\ resp[r].status = 500
            /\ resp[r].detail \in {"OpenAI API key not configured",
                                   "Google Drive credentials not configured"}
            /\ log[r] = << >>
            /\ op[r] = None
            /\ uploads[r] = 0
            /\ loads.count = 0

\* process-input-folder has answered 500 with the API key set and the drive
\* credentials path not set.
C14_Witness ==
    \E r \in Runs :
        /\ pc[r] = "done"
        /\ req[r].endpoint = "process-input-folder"
        /\ config.api_key /\ ~config.credentials_path
        /\ resp[r].status = 500

\* The data rows of a CSV text: the lines after the header, the empty piece
\* after the final newline left out.
DataRows(csv) == SelectSeq(Tail(csv), LAMBDA l : ~Blank(l))

\* C15: create_csv_from_llm_response never raises: for every input (no text,
\* empty text, rows of different field counts) it returns a CSV text, and
\* when a step of it fails it returns the six-column schema header followed
\* by the one "Error processing data" row.
C15_NormalizerNeverRaises ==
    Called("create_csv_from_llm_response") =>
        /\ ~Raised(ret[Worker])
        /\ Len(ret[Worker].value) >= 2
        /\ Raised(TryNormalize(op[Worker].args[1])) =>
            /\ Header(ret[Worker].value) = SchemaColumns
            /\ DataRows(ret[Worker].value) = << <<"Error processing data", "", "", "">> >>

\* A text whose rows do not parse (a row longer than the header allows) has
\* come back as the error CSV.
C15_Witness ==
    /\ Called("create_csv_from_llm_response")
    /\ op[Worker].args[1] # None
    /\ Raised(TryNormalize(op[Worker].args[1]))
    /\ ret[Worker] = [value |-> ErrorCsv]

\* C16: a text none of whose lines contains a comma comes back as the fixed
\* six-column header followed by exactly one fallback data row.
C16_FreeTextGivesFallbackRow ==
    (/\ Called("create_csv_from_llm_response")
     /\ op[Worker].args[1] # None
     /\ \A k \in 1..Len(op[Worker].args[1].text) : ~HasComma(op[Worker].args[1].text[k])) =>
        /\ Header(ret[Worker].value) = SchemaColumns
        /\ DataRows(ret[Worker].value) =
             << <<"No data extracted", "", "", "", "", "">> >>

\* Prose on several lines, none with a comma, has been normalized.
C16_Witness ==
    /\ Called("create_csv_from_llm_response")
    /\ op[Worker].args[1] = Str(<< <<"Here is the table:">>, <<"">>, <<"Here is the table:">> >>)
    /\ Len(DataRows(ret[Worker].value)) = 1

\* C17: for a text that begins with "date,", normalizing the output again
\* gives the same header and the same number of data rows.
C17_SecondPassKeepsHeaderAndRows ==
    (/\ Called("normalize_again")
     /\ op[Worker].args[1] # None
     /\ StartsWithDate(op[Worker].args[1].text)) =>
        /\ ~Raised(ret[Worker])
        /\ Header(ret[Worker].value) = Header(op[Worker].args[2])
        /\ Len(DataRows(ret[Worker].value)) = Len(DataRows(op[Worker].args[2]))

\* A text of a header and two rows has been normalized twice, two rows each
\* time.
C17_Witness ==
    /\ Called("normalize_again")
    /\ op[Worker].args[1] = CsvThreeColumns
    /\ Len(DataRows(op[Worker].args[2])) = 2
    /\ Len(DataRows(ret[Worker].value)) = 2

\* C18: for a non-empty list of transaction dictionaries, with fields missing
\* or keys outside the schema, create_csv_from_transactions writes the six
\* schema columns in their order and one row per transaction in input
\* order, an empty cell where the transaction has no value for the column.
C18_TransactionsGiveSchemaRows ==
    (Called("create_csv_from_transactions") /\ op[Worker].args[1] # << >>) =>
        LET transactions == op[Worker].args[1]
            csv == ret[Worker].value
        IN  /\ Header(csv) = SchemaColumns
            /\ Len(DataRows(csv)) = Len(transactions)
            /\ \A k \in 1..Len(transactions) :
                /\ Len(csv[k + 1]) = Len(SchemaColumns)
                /\ \A c \in 1..Len(SchemaColumns) :
                    csv[k + 1][c] = Get(transactions[k], SchemaColumns[c], "")

\* Two transactions, the first without an amount and with a key outside the
\* schema, the second with nothing but an amount, have been written.
C18_Witness ==
    /\ Called("create_csv_from_transactions")
    /\ Len(op[Worker].args[1]) = 2
    /\ DOMAIN op[Worker].args[1][1] = {"date", "description", "currency"}
    /\ DOMAIN op[Worker].args[1][2] = {"amount"}
    /\ ret[Worker].value[3] = <<"", "", "x", "", "", "">>

\* The pieces a file name stem is written with.
Tokens(stem) ==
    IF stem = "picpay_bank_statement" THEN <<"picpay", "_", "bank_statement">>
    ELSE <<stem>>

\* The name contains f"{bank}_{document_type}".
ContainsBankAndType(filename, bank, document_type) ==
    LET pieces == IF Len(filename.base) = 1 THEN Tokens(filename.base[1]) ELSE filename.base
    IN  \E k \in 1..Len(pieces) :
            k + 2 <= Len(pieces) /\ SubSeq(pieces, k, k + 2) = <<bank, "_", document_type>>

\* C19: generate_filename called with an original filename returns a name
\* that contains "{bank}_{document_type}" and ends with ".csv".
C19_NameHasBankAndTypeWithOriginal ==
    (/\ Called("generate_filename")
     /\ op[Worker].args[3] # None
     /\ op[Worker].args[3] # EmptyName) =>
        /\ ContainsBankAndType(ret[Worker].value, op[Worker].args[1], op[Worker].args[2])
        /\ ret[Worker].value.ext = "csv"

\* C20: generate_filename always returns a name ending in ".csv"; with no
\* original filename the name contains the bank and the document type.
C20_NameEndsCsv ==
    Called("generate_filename") =>
        /\ ret[Worker].value.ext = "csv"
        /\ op[Worker].args[3] \in {None, EmptyName} =>
            /\ \E k \in 1..Len(ret[Worker].value.base) :
                 ret[Worker].value.base[k] = op[Worker].args[1]
            /\ \E k \in 1..Len(ret[Worker].value.base) :
                 ret[Worker].value.base[k] = op[Worker].args[2]

\* A name has been generated from an original "statement.pdf", and one with
\* no original filename.
C20_Witness ==
    /\ Called("generate_filename")
    /\ op[Worker].args = <<"itau", "credit_card", None>>
    /\ ret[Worker].value.base = <<"itau", "_", "credit_card">>

\* C21 as stated: for every max_retries and every pattern of failures, when
\* retry_with_backoff is over the operation was invoked until its first
\* success or until max_retries attempts failed; the outcome is the result
\* of that success, or else the exception of the last attempt, raised; the
\* waits were base_delay * 2^attempt after each failed attempt but the last;
\* and it has not returned without a successful invocation or a raise.
C21_RetryUntilSuccessOrExhausted ==
    pc[Worker] = "retry_done" =>
        LET l == loc[Worker]
            n == Len(l.invocations)
        IN  /\ n >= 1
            /\ \A k \in 1..(n - 1) : Raised(l.invocations[k])
            /\ l.outcome = l.invocations[n]
            /\ Raised(l.outcome) => n = l.max_retries
            /\ l.sleeps = [k \in 1..(n - 1) |-> l.base_delay * 2^(k - 1)]

\* The same for max_retries >= 1.
C21_RetryWithPositiveRetries ==
    (pc[Worker] = "retry_done" /\ loc[Worker].max_retries >= 1) =>
        LET l == loc[Worker]
            n == Len(l.invocations)
        IN  /\ n >= 1
            /\ \A k \in 1..(n - 1) : Raised(l.invocations[k])
            /\ l.outcome = l.invocations[n]
            /\ Raised(l.outcome) => n = l.max_retries
            /\ l.sleeps = [k \in 1..(n - 1) |-> l.base_delay * 2^(k - 1)]

\* C22: an extraction endpoint (ocr-bank-statement-*, ocr-cc-statement-*,
\* ocr-file once it has routed) answers 200 with success = false in the body
\* exactly when the extraction operation returned a result with
\* success = false; an exception that reaches the endpoint's handler is
\* answered 500 with a detail that ends with the text of the exception.
C22_EndpointTranslation ==
    \A r \in Runs :
        (pc[r] = "done" /\ req[r].endpoint \in ExtractionEndpoints /\ op[r] # None) =>
            /\ (IsExtraction(op[r].name) /\ ~Raised(ret[r])) =>
                /\ resp[r].status = 200
                /\ resp[r].body.success = ret[r].value.success
            /\ (resp[r].status = 200 /\ ~resp[r].body.success) =>
                /\ IsExtraction(op[r].name)
                /\ ~Raised(ret[r])
                /\ ~ret[r].value.success
            /\ Raised(ret[r]) =>
                resp[r] = HTTPException(500, "Failed to process file: " \o StrExc(ret[r].raised))

\* ocr-cc-statement has answered 200 with success = false after an inference
\* call that failed.
C22_Witness ==
    \E r \in Runs :
        /\ pc[r] = "done"
        /\ req[r].endpoint = "ocr-cc-statement"
        /\ loc[r].exc = Exc("APIConnectionError", "Connection error.")
        /\ ~ret[r].value.success
        /\ resp[r].status = 200
        /\ ~resp[r].body.success

KnownBanks == BankStatementBanks \cup CreditCardBanks
DocumentTypes == {"bank_statement", "credit_card", "unknown"}

\* C23: every classification the identify operation returns, and every
\* answer of identify-file built from it, has document_type among
\* bank_statement, credit_card and unknown, and bank among the known banks
\* (in any letter case) or unknown, whatever the inference call returned.
C23_ClassificationInClosedSets ==
    \A r \in Runs :
        /\ (IdentifyReturned(r) /\ ~Raised(ret[r])) =>
            /\ Get(ret[r].value, "document_type", "unknown") \in DocumentTypes
            /\ Lower(Get(ret[r].value, "bank", "unknown")) \in KnownBanks \cup {"unknown"}
        /\ (pc[r] = "done" /\ req[r].endpoint = "identify-file" /\ resp[r].status = 200) =>
            /\ resp[r].body.document_type \in DocumentTypes
            /\ Lower(resp[r].body.bank) \in KnownBanks \cup {"unknown"}

\* The external calls made for the operation in progress: the entries of
\* the log after the call of the operation.
OpLog(r) ==
    LET calls == {k \in 1..Len(log[r]) : log[r][k].ev = "call"}
        start == IF calls = {} THEN 0 ELSE CHOOSE k \in calls : \A j \in calls : j <= k
    IN  SubSeq(log[r], start + 1, Len(log[r]))

At(events, ev) == {k \in 1..Len(events) : events[k].ev = ev}

\* C24: an extraction run goes DOWNLOAD, (CONVERT for a PDF), INFER,
\* NORMALIZE, UPLOAD, RESPOND, each external call made at most once: the
\* inference call follows a download that succeeded (and, for a PDF, a
\* conversion that gave pages), the upload follows an inference call that
\* succeeded and carries the normalized output of it, nothing follows a
\* call that failed, and the endpoint has not answered before the operation
\* returned.
C24_ExtractionOrder ==
    \A r \in Runs :
        (op[r] # None /\ IsExtraction(op[r].name)) =>
            LET events == OpLog(r)
                downloads == At(events, "download")
                infers == At(events, "infer")
                ups == At(events, "upload")
            IN  /\ Cardinality(downloads) <= 1
                /\ Cardinality(infers) <= 1
                /\ Cardinality(ups) <= 1
                /\ Len(events) = Cardinality(downloads \cup infers \cup ups)
                /\ \A i \in infers :
                    /\ \E d \in downloads : d < i /\ events[d].ok
                    /\ IsPdf(loc[r].filename) => loc[r].images # << >>
                /\ \A u \in ups :
                    /\ \E i \in infers : i < u /\ events[i].ok
                    /\ loc[r].inferred
                    /\ events[u].csv_content = create_csv_from_llm_response(loc[r].response)
                /\ \A k \in 1..Len(events) : ~events[k].ok => k = Len(events)
                /\ (resp[r] # None /\ req[r].endpoint # "process-input-folder") =>
                    /\ pc[r] = "done"
                    /\ ret[r] # None

\* An extraction of a two-page PDF has downloaded, converted, inferred and
\* uploaded, in that order, and the endpoint has answered.
C24_Witness ==
    \E r \in Runs :
        /\ pc[r] = "done"
        /\ op[r] # None /\ IsExtraction(op[r].name)
        /\ Len(loc[r].images) = 2
        /\ Len(OpLog(r)) = 3
        /\ OpLog(r)[1].ev = "download" /\ OpLog(r)[2].ev = "infer" /\ OpLog(r)[3].ev = "upload"
        /\ OpLog(r)[3].ok
        /\ resp[r].status = 200

\* C25: in an extraction of a PDF, when the conversion gave exactly one
\* image the run makes one analyze_image call with that image; when it gave
\* N > 1 images the run makes exactly one call, analyze_multiple_images,
\* carrying the N page images in page order: none dropped, none twice.
C25_PageCountBranching ==
    \A r \in Runs :
        (/\ op[r] # None /\ IsExtraction(op[r].name)
         /\ loc[r].filename # None /\ IsPdf(loc[r].filename)
         /\ At(OpLog(r), "infer") # {}) =>
            LET events == OpLog(r)
                images == loc[r].images
            IN  /\ Cardinality(At(events, "infer")) = 1
                /\ \A i \in At(events, "infer") :
                    /\ Len(events[i].images) = Len(images)
                    /\ \A k \in 1..Len(images) : events[i].images[k] = ImageToBytes(images[k])
                    /\ events[i].call = IF Len(images) = 1 THEN "analyze_image"
                                        ELSE "analyze_multiple_images"

\* An extraction of the two-page PDF has made its inference call with page 1
\* and page 2.
C25_Witness ==
    \E r \in Runs :
        /\ op[r] # None /\ IsExtraction(op[r].name)
        /\ \E i \in At(OpLog(r), "infer") :
            /\ OpLog(r)[i].call = "analyze_multiple_images"
            /\ OpLog(r)[i].images = << ImageToBytes([of |-> "B2", page |-> 1]),
                                       ImageToBytes([of |-> "B2", page |-> 2]) >>

\* The folder loop of run r is under way.
InFolderLoop(r) ==
    req[r] # None /\ req[r].endpoint = "process-input-folder" /\ handler[r].files # << >>

\* C26: process-input-folder handles the files one after the other in
\* listing order: the iterations over are those of the files before the
\* current one, in listing order; an operation in progress, and every call
\* made since the last iteration ended, is for the current file alone.
C26_FolderSequential ==
    \A r \in Runs :
        InFolderLoop(r) =>
            LET h == handler[r]
            IN  /\ h.i \in 1..(Len(h.files) + 1)
                /\ Len(h.iterations) = h.i - 1
                /\ \A k \in 1..Len(h.iterations) : h.iterations[k].file_id = h.files[k]
                /\ op[r] # None => (h.i <= Len(h.files) /\ op[r].file_id = h.files[h.i])
                /\ op[r] = None => log[r] \in {<< >>, << [ev |-> "list", ok |-> TRUE] >>}
                /\ \A k \in 1..Len(log[r]) :
                    "file_id" \in DOMAIN log[r][k] =>
                        (h.i <= Len(h.files) /\ log[r][k].file_id = h.files[h.i])

\* The second file of a listing is being downloaded for extraction after
\* the first one went through identification and extraction.
C26_Witness ==
    \E r \in Runs :
        /\ InFolderLoop(r)
        /\ handler[r].i = 2
        /\ handler[r].iterations[1].extracted # None
        /\ op[r] # None /\ IsExtraction(op[r].name)
        /\ At(OpLog(r), "download") # {}

\* The names of the files of a listing that a predicate on positions picks,
\* in listing order.
NamesAt(files, picked) ==
    LET ks == SelectSeq([k \in 1..Len(files) |-> k], LAMBDA k : picked[k])
    IN  [j \in 1..Len(ks) |-> FileName(files[ks[j]])]

NamesOf(list) == [j \in 1..Len(list) |-> list[j].file_name]

\* C27: when process-input-folder returns for a non-empty listing, every
\* listed file is in exactly one of processed_files and failed_files, once,
\* and each list is in listing order: the listing splits into the two lists,
\* and len(processed_files) + len(failed_files) = total_files.
C27_FolderPartition ==
    \A r \in Runs :
        (pc[r] = "done" /\ InFolderLoop(r) /\ resp[r].status = 200) =>
            LET body == resp[r].body
                files == handler[r].files
            IN  /\ body.total_files = Len(files)
                /\ Len(body.processed_files) + Len(body.failed_files) = body.total_files
                /\ \E processed \in [1..Len(files) -> BOOLEAN] :
                    /\ NamesOf(body.processed_files) = NamesAt(files, processed)
                    /\ NamesOf(body.failed_files) =
                         NamesAt(files, [k \in 1..Len(files) |-> ~processed[k]])

\* A listing of two files has been answered with the first file failed and
\* the second processed.
C27_Witness ==
    \E r \in Runs :
        /\ pc[r] = "done" /\ InFolderLoop(r) /\ resp[r].status = 200
        /\ Len(handler[r].files) = 2
        /\ NamesOf(resp[r].body.failed_files) = << FileName(handler[r].files[1]) >>
        /\ NamesOf(resp[r].body.processed_files) = << FileName(handler[r].files[2]) >>

\* The uploads of the operation in progress that created a file.
Created(r) == {k \in At(OpLog(r), "upload") : OpLog(r)[k].ok}

\* C28: an extraction operation that returns success = false has created no
\* CSV in the remote store; one that returns success = true has created
\* exactly one, whose id and url are those of the result.  A request that
\* is not a folder request has created as many files as it has successes.
C28_NoOrphanUpload ==
    \A r \in Runs :
        /\ (ExtractionReturned(r) /\ ~Raised(ret[r])) =>
            LET result == ret[r].value
            IN  /\ ~result.success => Created(r) = {}
                /\ result.success =>
                    /\ Cardinality(Created(r)) = 1
                    /\ \A k \in Created(r) :
                        /\ result.csv_file_id = OpLog(r)[k].id
                        /\ result.csv_file_url = "https://drive.google.com/file/d/" \o OpLog(r)[k].id
        /\ (pc[r] = "h_extract" /\ ~Raised(ret[r])) =>
            uploads[r] = IF ret[r].value.success THEN 1 ELSE 0
        /\ (pc[r] = "f_iter" /\ InFolderLoop(r)) =>
            uploads[r] = Len(handler[r].processed_files)

\* An extraction has returned success = true with the id of the one file it
\* created.
C28_Witness ==
    \E r \in Runs :
        /\ pc[r] = "h_extract"
        /\ ret[r].value.success
        /\ Cardinality(Created(r)) = 1
        /\ ret[r].value.csv_file_id = CsvFileId(1)
        /\ uploads[r] = 1

Orchestrated(r) == req[r] # None /\ req[r].endpoint \in {"ocr-file", "process-input-folder"}

\* C29: in ocr-file and in an iteration of the folder loop, an extraction
\* operation is in progress (and so, by C24, a download, inference or upload
\* of it is made) only after identify_file returned a classification for the
\* same file, and it is the operation that classification routes to; when
\* identify_file raised or the classification is unroutable, no extraction
\* operation is called for the file.
C29_ExtractionAfterIdentify ==
    \A r \in Runs :
        Orchestrated(r) =>
            /\ (op[r] # None /\ IsExtraction(op[r].name)) =>
                LET identified == handler[r].identification
                IN  /\ identified # None
                    /\ ~Raised(identified)
                    /\ identified.value.file_id = op[r].file_id
                    /\ Route(identified.value) = [call |-> op[r].name, bank |-> op[r].bank]
                    /\ \E i, e \in 1..Len(log[r]) :
                        /\ i < e
                        /\ log[r][i].ev = "call" /\ log[r][i].name = "identify_file"
                        /\ log[r][i].file_id = op[r].file_id
                        /\ log[r][e].ev = "call" /\ log[r][e].name = op[r].name
                        /\ log[r][e].file_id = op[r].file_id
            /\ (pc[r] = "done" /\ req[r].endpoint = "ocr-file" /\ op[r] # None
                /\ op[r].name = "identify_file") =>
                /\ Raised(ret[r]) \/ Rejected(Route(ret[r].value))
                /\ ~ExtractionCalled(r)
                /\ uploads[r] = 0
            /\ \A k \in 1..Len(handler[r].iterations) :
                LET it == handler[r].iterations[k]
                IN  /\ it.extracted # None =>
                        /\ it.identified # None
                        /\ ~Raised(it.identified)
                        /\ it.identified.value.file_id = it.file_id
                        /\ ~Rejected(Route(it.identified.value))
                    /\ (it.identified = None \/ Raised(it.identified)
                        \/ Rejected(Route(it.identified.value))) => it.extracted = None

\* ocr-file is extracting a file, downloaded again, after identify_file
\* classified it as a bank statement of ITAU.
C29_Witness ==
    \E r \in Runs :
        /\ req[r] # None /\ req[r].endpoint = "ocr-file"
        /\ op[r] # None /\ op[r].name = "process_bank_statement" /\ op[r].bank = "itau"
        /\ handler[r].identification # None
        /\ handler[r].identification.value.bank = "ITAU"
        /\ At(OpLog(r), "download") # {}
        /\ pc[r] # "done"

====
